---- MODULE Spec2Model ----
(***************************************************************************)
(* The request-authentication gate of the party backend (app/pregame and   *)
(* research/ory-api-test): credential extraction from request headers,     *)
(* remote session introspection against the identity provider, lazy guest  *)
(* resolution against the guest table, and the gate's mapping of outcomes  *)
(* to HTTP responses.                                                      *)
(*                                                                         *)
(* Option<T> is modelled as a sequence: None is <<>>, Some(x) is <<x>>.    *)
(* A string the code parses is a sequence of symbols; the literal          *)
(* "ory_session_" and the literal "Bearer " are single symbols.            *)
(***************************************************************************)
EXTENDS Integers, Sequences, FiniteSets, TLC

\* ------------------------------------------------------------------ bounds
\* Number of inbound requests (one task per request).
NumRequests == 2
\* Longest Cookie header, in symbols.
MaxHeaderLen == 4

\* ------------------------------------------------------------------ options
None == <<>>
Some(x) == <<x>>
IsSome(o) == o # <<>>
Unwrap(o) == o[1]

\* ------------------------------------------------------------------ strings
SESSION_PREFIX == "ory_session_"
BEARER_PREFIX == "Bearer "
CookieAlphabet == {SESSION_PREFIX, "a", "=", ";", " "}

RECURSIVE SeqsUpTo(_, _)
SeqsUpTo(S, n) ==
    IF n = 0 THEN {<<>>}
    ELSE LET shorter == SeqsUpTo(S, n - 1)
         IN  shorter \cup {Append(s, c) : s \in {t \in shorter : Len(t) = n - 1}, c \in S}

\* Index of the first occurrence of symbol c in s, 0 when absent (str::find).
RECURSIVE FindFrom(_, _, _)
FindFrom(s, c, i) ==
    IF i > Len(s) THEN 0
    ELSE IF s[i] = c THEN i
    ELSE FindFrom(s, c, i + 1)

Find(s, c) == FindFrom(s, c, 1)

\* str::split(sep): the pieces between separators, in order; never empty.
RECURSIVE Split(_, _)
Split(s, sep) ==
    LET i == Find(s, sep)
    IN  IF i = 0 THEN <<s>>
        ELSE <<SubSeq(s, 1, i - 1)>> \o Split(SubSeq(s, i + 1, Len(s)), sep)

\* str::trim(): leading and trailing whitespace removed.
RECURSIVE TrimStart(_)
TrimStart(s) ==
    IF Len(s) > 0 /\ s[1] = " " THEN TrimStart(Tail(s)) ELSE s

RECURSIVE TrimEnd(_)
TrimEnd(s) ==
    IF Len(s) > 0 /\ s[Len(s)] = " " THEN TrimEnd(SubSeq(s, 1, Len(s) - 1)) ELSE s

Trim(s) == TrimEnd(TrimStart(s))

\* str::starts_with for a literal that is one symbol of the alphabet.
StartsWith(s, prefix) == Len(s) > 0 /\ s[1] = prefix

\* str::split_once('='): Some((before, after)) at the first '=', else None.
SplitOnce(s, sep) ==
    LET i == Find(s, sep)
    IN  IF i = 0 THEN None
        ELSE Some([name |-> SubSeq(s, 1, i - 1), value |-> SubSeq(s, i + 1, Len(s))])

\* ------------------------------------------------------------------ headers
\* A header value: its bytes are visible ASCII (HeaderValue::to_str is Ok) or not.
HeaderValue(ascii, text) == [ascii |-> ascii, text |-> text]

CookieTexts == SeqsUpTo(CookieAlphabet, MaxHeaderLen)

CookieHeaders ==
    {None, Some(HeaderValue(FALSE, <<SESSION_PREFIX, "=", "a">>))}
        \cup {Some(HeaderValue(TRUE, t)) : t \in CookieTexts}

AuthorizationHeaders ==
    {None, Some(HeaderValue(FALSE, <<BEARER_PREFIX, "a">>)),
     Some(HeaderValue(TRUE, <<BEARER_PREFIX, "a">>)),
     Some(HeaderValue(TRUE, <<BEARER_PREFIX>>)),
     Some(HeaderValue(TRUE, <<"a">>))}

SessionTokenHeaders ==
    {None, Some(HeaderValue(FALSE, <<"a">>)), Some(HeaderValue(TRUE, <<"a">>))}

\* The scan that gives up at the first prefixed entry: one without '=' ends
\* the scan with None.
RECURSIVE ScanCookiesStopping(_, _)
ScanCookiesStopping(entries, i) ==
    IF i > Len(entries) THEN None
    ELSE LET cookie == Trim(entries[i])
         IN  IF StartsWith(cookie, SESSION_PREFIX)
             THEN SplitOnce(cookie, "=")
             ELSE ScanCookiesStopping(entries, i + 1)

\* The loop of extract_cookie_access_token over the split entries, from entry i on.
RECURSIVE ScanCookies(_, _)
ScanCookies(entries, i) ==
    IF i > Len(entries) THEN None
    ELSE LET cookie == Trim(entries[i])
         IN  IF StartsWith(cookie, SESSION_PREFIX) /\ IsSome(SplitOnce(cookie, "="))
             THEN SplitOnce(cookie, "=")
             ELSE ScanCookies(entries, i + 1)

\* The scan without the prefix test: the first entry with '=' is taken.
RECURSIVE ScanAnyCookie(_, _)
ScanAnyCookie(entries, i) ==
    IF i > Len(entries) THEN None
    ELSE LET cookie == Trim(entries[i])
         IN  IF IsSome(SplitOnce(cookie, "="))
             THEN SplitOnce(cookie, "=")
             ELSE ScanAnyCookie(entries, i + 1)

extract_cookie_without_prefix_test(headers) ==
    IF IsSome(headers.cookie) /\ Unwrap(headers.cookie).ascii
    THEN ScanAnyCookie(Split(Unwrap(headers.cookie).text, ";"), 1)
    ELSE None

extract_cookie_access_token(headers) ==
    IF IsSome(headers.cookie) /\ Unwrap(headers.cookie).ascii
    THEN ScanCookies(Split(Unwrap(headers.cookie).text, ";"), 1)
    ELSE None

\* research/ory-api-test: Authorization bearer, then X-Session-Token, then cookie.
extract_token(headers) ==
    IF /\ IsSome(headers.authorization)
       /\ Unwrap(headers.authorization).ascii
       /\ StartsWith(Unwrap(headers.authorization).text, BEARER_PREFIX)
    THEN Some([name |-> <<"bearer">>, value |-> Tail(Unwrap(headers.authorization).text)])
    ELSE IF IsSome(headers.xsession) /\ Unwrap(headers.xsession).ascii
    THEN Some([name |-> <<"x-session-token">>, value |-> Unwrap(headers.xsession).text])
    ELSE extract_cookie_access_token(headers)

\* ------------------------------------------------------------------ provider
\* StatusCode constants the code names.
OK == 200
UNAUTHORIZED == 401
INTERNAL_SERVER_ERROR == 500

\* HTTP statuses the identity provider may answer with: success, its own
\* "no valid session" answer, and an outage.
ProviderStatuses == {200, 401, 503}

\* StatusCode::is_success
is_success(status) == status >= 200 /\ status <= 299

\* The identities the provider knows, with the traits each one has: all of
\* them, no phone, no name, no email.
OryIdentity ==
    {[id |-> "i1", traits |-> [name |-> Some("Ann"), email |-> Some("ann@b.com"), phone |-> Some("555")]],
     [id |-> "i2", traits |-> [name |-> Some("Bob"), email |-> Some("bob@b.com"), phone |-> None]],
     [id |-> "i3", traits |-> [name |-> None, email |-> Some("cy@b.com"), phone |-> Some("777")]],
     [id |-> "i4", traits |-> [name |-> Some("Dee"), email |-> None, phone |-> Some("888")]]}

Identities == {i.id : i \in OryIdentity}

\* The JSON body of /sessions/whoami: {active, id, identity?: {id, traits}}.
SessionBodies == [active : BOOLEAN, id : {"s1"}, identity : {None} \cup {Some(i) : i \in OryIdentity}]

NoSession == [active |-> FALSE, id |-> "", identity |-> None]

\* What one call to the provider can come back with: the send fails, or a
\* response with a status and a body that decodes as a session or does not.
ProviderReplies ==
    {[sent |-> FALSE, status |-> 0, decodable |-> FALSE, session |-> NoSession]}
        \cup {[sent |-> TRUE, status |-> st, decodable |-> FALSE, session |-> NoSession] :
                 st \in ProviderStatuses}
        \cup {[sent |-> TRUE, status |-> st, decodable |-> TRUE, session |-> b] :
                 st \in ProviderStatuses, b \in SessionBodies}

\* ------------------------------------------------------------------ validators
AuthOk(session) == [ok |-> TRUE, session |-> session, error |-> "none", msg |-> ""]
AuthErr(error, msg) == [ok |-> FALSE, session |-> NoSession, error |-> error, msg |-> msg]

\* serde: AuthSession {active, id} ignores the other fields of the body; the
\* revision used by api/auth.rs also keeps `identity`.
DecodeAuthSession(body, withIdentity) ==
    IF withIdentity THEN body ELSE [body EXCEPT !.identity = None]

\* validate_token without the test of `active`.
validate_token_ignores_active(reply, withIdentity) ==
    IF ~reply.sent
    THEN AuthErr("InternalServerError", "Failed to make HTTP request.")
    ELSE IF ~is_success(reply.status)
    THEN AuthErr("InternalServerError", "Ory service returned error status")
    ELSE IF ~reply.decodable
    THEN AuthErr("InternalServerError", "Failed to make HTTP request.")
    ELSE AuthOk(DecodeAuthSession(reply.session, withIdentity))

\* validate_token reporting an inactive session as an internal error.
validate_token_inactive_is_internal(reply, withIdentity) ==
    IF ~reply.sent
    THEN AuthErr("InternalServerError", "Failed to make HTTP request.")
    ELSE IF ~is_success(reply.status)
    THEN AuthErr("InternalServerError", "Ory service returned error status")
    ELSE IF ~reply.decodable
    THEN AuthErr("InternalServerError", "Failed to make HTTP request.")
    ELSE IF reply.session.active
    THEN AuthOk(DecodeAuthSession(reply.session, withIdentity))
    ELSE AuthErr("InternalServerError", "Session is not active")

\* app/pregame/src/auth.rs validate_token
\* ory_sdk_url is a base URL (AuthState's documented requirement), so the
\* join of "/sessions/whoami" succeeds and its error branch is not taken.
validate_token(reply, withIdentity) ==
    IF ~reply.sent
    THEN AuthErr("InternalServerError", "Failed to make HTTP request.")
    ELSE IF ~is_success(reply.status)
    THEN AuthErr("InternalServerError", "Ory service returned error status")
    ELSE IF ~reply.decodable
    THEN AuthErr("InternalServerError", "Failed to make HTTP request.")
    ELSE IF reply.session.active
    THEN AuthOk(DecodeAuthSession(reply.session, withIdentity))
    ELSE AuthErr("Unauthorized", "")

\* app/pregame/src/auth/ory.rs validate_token: the status is not looked at.
ory_validate_token(reply) ==
    IF ~reply.sent
    THEN AuthErr("InternalServerError", "Failed to make HTTP request.")
    ELSE IF ~reply.decodable
    THEN AuthErr("InternalServerError", "Failed to make HTTP request.")
    ELSE IF reply.session.active
    THEN AuthOk(DecodeAuthSession(reply.session, FALSE))
    ELSE AuthErr("Unauthorized", "")

\* research/ory-api-test validate_session_with_kratos: Session {id, active,
\* identity} with identity required; the error is a boxed message.
validate_session_with_kratos(reply) ==
    IF ~reply.sent
    THEN AuthErr("Error", "error sending request")
    ELSE IF ~is_success(reply.status)
    THEN AuthErr("Error", "Kratos returned status")
    ELSE IF ~reply.decodable \/ ~IsSome(reply.session.identity)
    THEN AuthErr("Error", "error decoding response body")
    ELSE AuthOk(reply.session)

\* ------------------------------------------------------------------ responses
Response(status, body, detail) == [status |-> status, body |-> body, detail |-> detail]

\* What the gate does with a request once it has decided: forward it to the
\* next stage, or answer it itself.
Forward(session, attach) ==
    [forward |-> TRUE, session |-> Some(session),
     ext |-> IF attach THEN Some(session) ELSE None,
     response |-> None, logged |-> None]

Answer(response, logged) ==
    [forward |-> FALSE, session |-> None, ext |-> None,
     response |-> Some(response), logged |-> logged]

\* AuthMiddleware::call letting an Unauthorized result through to the inner service.
AuthMiddleware_call_forwards_unauthorized(result) ==
    IF result.ok \/ result.error = "Unauthorized"
    THEN Forward(result.session, FALSE)
    ELSE Answer(Response(INTERNAL_SERVER_ERROR, "Internal Server Error", ""), Some(result.msg))

\* app/pregame/src/auth.rs AuthMiddleware::call, the match on validate_token.
AuthMiddleware_call(result) ==
    IF result.ok
    THEN Forward(result.session, FALSE)
    ELSE IF result.error = "Unauthorized"
    THEN Answer(Response(UNAUTHORIZED, "Unauthorized", ""), None)
    ELSE Answer(Response(INTERNAL_SERVER_ERROR, "Internal Server Error", ""), Some(result.msg))

\* app/pregame/src/api.rs auth_middleware over auth_middleware_impl.
auth_middleware(result) ==
    IF result.ok
    THEN Forward(result.session, TRUE)
    ELSE IF result.error = "InternalServerError"
    THEN Answer(Response(INTERNAL_SERVER_ERROR, "Internal Server Error", ""), Some(result.msg))
    ELSE Answer(Response(UNAUTHORIZED, "Unauthorized", ""), None)

\* research/ory-api-test validate_token, the match on the validation result:
\* the endpoint answers itself, nothing is forwarded.
ory_api_test_validate(result) ==
    IF result.ok
    THEN IF result.session.active
         THEN Answer(Response(OK, "valid", ""), None)
         ELSE Answer(Response(UNAUTHORIZED, "Session is not active", ""), None)
    ELSE Answer(Response(UNAUTHORIZED, "Invalid session", result.msg), Some(result.msg))

\* ------------------------------------------------------------------ guest table
\* Columns of the guest table that the schema declares unique: create_table
\* declares guest_id PRIMARY KEY and nothing else.
GuestUniqueColumns == {"guest_id"}

GuestRow(guest_id, ory_identity_id, name, email, phone) ==
    [guest_id |-> guest_id, ory_identity_id |-> ory_identity_id, name |-> name,
     email |-> email, phone |-> phone, deleted |-> FALSE]

\* INSERT INTO guest: refused when a declared unique column would repeat.
InsertViolates(table, row) ==
    \E g \in table : \E c \in GuestUniqueColumns : g[c] = row[c]

\* SELECT ... FROM guest WHERE ory_identity_id = $1 AND deleted_at IS NULL
SelectByOryIdentity(table, ory_identity_id) ==
    {g \in table : g.ory_identity_id = ory_identity_id /\ ~g.deleted}

\* SELECT ... FROM guest WHERE guest_id = $1
SelectByGuestId(table, guest_id) ==
    {g \in table : g.guest_id = guest_id}

\* Result of a resolver step: a guest, a miss, or an error response.
Found(guest) == [kind |-> "found", guest |-> Some(guest), response |-> None, logged |-> None]
Missing == [kind |-> "missing", guest |-> None, response |-> None, logged |-> None]
Failed(response, logged) ==
    [kind |-> "failed", guest |-> None, response |-> Some(response), logged |-> Some(logged)]

\* get_guest with a WHERE clause that never matches.
get_guest_never_matches(table, ory_identity_id, dbOk) ==
    IF ~dbOk
    THEN Failed(Response(INTERNAL_SERVER_ERROR, "Internal Server Error", ""),
                "Database error when querying guest")
    ELSE Missing

\* app/pregame/src/api/auth.rs get_guest: query_opt fails on a database
\* error and when more than one row matches.
get_guest(table, ory_identity_id, dbOk) ==
    LET rows == SelectByOryIdentity(table, ory_identity_id)
    IN  IF ~dbOk \/ Cardinality(rows) > 1
        THEN Failed(Response(INTERNAL_SERVER_ERROR, "Internal Server Error", ""),
                    "Database error when querying guest")
        ELSE IF rows = {} THEN Missing
        ELSE Found(CHOOSE g \in rows : TRUE)

\* app/pregame/src/api/auth.rs AuthSession::to_guest
to_guest(session, guest_id) ==
    IF ~IsSome(session.identity)
    THEN [ok |-> FALSE, error |-> "Unauthorized", msg |-> "", guest |-> None]
    ELSE LET identity == Unwrap(session.identity)
         IN  IF ~IsSome(identity.traits.name)
             THEN [ok |-> FALSE, error |-> "InternalServerError",
                   msg |-> "Unable to parse identity name", guest |-> None]
             ELSE IF ~IsSome(identity.traits.email)
             THEN [ok |-> FALSE, error |-> "InternalServerError",
                   msg |-> "Unable to parse identity email", guest |-> None]
             ELSE [ok |-> TRUE, error |-> "none", msg |-> "",
                   guest |-> Some(GuestRow(guest_id, identity.id,
                                           Unwrap(identity.traits.name),
                                           Unwrap(identity.traits.email),
                                           IF IsSome(identity.traits.phone)
                                           THEN Unwrap(identity.traits.phone) ELSE ""))]

\* app/pregame/src/api/auth.rs create_guest: to_guest, then the INSERT.
create_guest(table, session, guest_id, dbOk) ==
    LET new_guest == to_guest(session, guest_id)
    IN  IF ~new_guest.ok
        THEN IF new_guest.error = "Unauthorized"
             THEN Failed(Response(UNAUTHORIZED, "Unauthorized", ""),
                         "Failed to create guest from session")
             ELSE Failed(Response(INTERNAL_SERVER_ERROR, "Internal Server Error", ""),
                         new_guest.msg)
        ELSE IF ~dbOk \/ InsertViolates(table, Unwrap(new_guest.guest))
        THEN Failed(Response(INTERNAL_SERVER_ERROR, "Internal Server Error", ""),
                    "Database error when inserting guest")
        ELSE Found(Unwrap(new_guest.guest))

\* Option<String>::unwrap_or_default
unwrap_or_default(o) == IF IsSome(o) THEN Unwrap(o) ELSE ""

\* The response the gate gives for an IdentityError of identity.rs.
IdentityErrorResponse == Response(INTERNAL_SERVER_ERROR, "Internal Server Error", "")

\* app/pregame/src/identity.rs get_or_create_guest, the lookup.
identity_lookup(table, ory_identity_id, dbOk) ==
    LET rows == SelectByOryIdentity(table, ory_identity_id)
    IN  IF ~dbOk \/ Cardinality(rows) > 1
        THEN Failed(IdentityErrorResponse, "DatabaseError")
        ELSE IF rows = {} THEN Missing
        ELSE Found(CHOOSE g \in rows : TRUE)

\* app/pregame/src/identity.rs get_or_create_guest, the INSERT with defaults.
identity_insert(table, identity, guest_id, dbOk) ==
    LET row == GuestRow(guest_id, identity.id,
                        unwrap_or_default(identity.traits.name),
                        unwrap_or_default(identity.traits.email),
                        unwrap_or_default(identity.traits.phone))
    IN  IF ~dbOk \/ InsertViolates(table, row)
        THEN Failed(IdentityErrorResponse, "DatabaseError")
        ELSE Found(row)

\* app/pregame/src/identity.rs get_or_create_guest, the query_one that
\* fetches the new row back: fails unless exactly one row matches.
identity_fetch(table, guest_id, dbOk) ==
    LET rows == SelectByGuestId(table, guest_id)
    IN  IF ~dbOk \/ Cardinality(rows) # 1
        THEN Failed(IdentityErrorResponse, "DatabaseError")
        ELSE Found(CHOOSE g \in rows : TRUE)

\* ------------------------------------------------------------------ passcode/HMAC server
\* src/src: the warp server whose routes take a signed Party-Token header.
\* PARTY_KEY is the key the server holds; the other key is a stranger's.
PARTY_KEY == "K"
SigningKeys == {PARTY_KEY, "K2"}

\* The guests collection has one document.
GuestIds == {"g1"}

\* models::RsvpStatus
RsvpStatuses == {"Pending", "Going", "Maybe", "Declined"}

\* BTreeMap<String, String> claims: what handlers::authenticate signs
\* ("guest"), what bin/token.rs signs ("name"), what Server::hello reads
\* ("passcode").
ClaimSets == {("guest" :> "g1"), ("name" :> "g1"), ("passcode" :> "g1")}

\* BTreeMap::get
BTreeMapGet(m, k) == IF k \in DOMAIN m THEN Some(m[k]) ELSE None

\* HMAC-SHA256 of header.payload under a key: equal tags only for equal key
\* and equal signed value; `intact` is FALSE once a byte of the tag changed.
Mac(key, header, claims) ==
    [key |-> key, header |-> header, claims |-> claims, intact |-> TRUE]

\* jwt::SignWithKey: header.payload.signature
sign_with_key(claims, key) ==
    [header |-> "HS256", claims |-> claims, signature |-> Mac(key, "HS256", claims)]

\* jwt::VerifyWithKey: the header names the key's algorithm and the tag
\* recomputed under the key equals the token's.
verify_with_key(token, key) ==
    IF token.header # "HS256"
    THEN [ok |-> FALSE, claims |-> None]
    ELSE IF token.signature # Mac(key, token.header, token.claims)
    THEN [ok |-> FALSE, claims |-> None]
    ELSE [ok |-> TRUE, claims |-> Some(token.claims)]

\* A token with one part of its text changed: the payload (to other claims),
\* the signature, or the header.
FlipClaims(token, claims) == [token EXCEPT !.claims = claims]
FlipSignature(token) == [token EXCEPT !.signature.intact = FALSE]
FlipHeader(token) == [token EXCEPT !.header = "HS384"]

\* The Party-Token values a client may send, each with how it came to be:
\* the key it was signed with and whether it was changed after signing.
PartyTokens ==
    LET Signed == {[token |-> sign_with_key(c, k), key |-> k, modified |-> FALSE] :
                      c \in ClaimSets, k \in SigningKeys}
        Changed(t) == {FlipClaims(t, c) : c \in ClaimSets \ {t.claims}}
                          \cup {FlipSignature(t), FlipHeader(t)}
    IN  Signed \cup UNION {{[token |-> m, key |-> s.key, modified |-> TRUE] :
                                m \in Changed(s.token)} : s \in Signed}

\* The result of a token filter: the guest it hands to the handler, or the
\* rejection (or panic) it ends the request with.
TokenOk(guest) == [ok |-> TRUE, guest |-> Some(guest), error |-> "none"]
TokenErr(error) == [ok |-> FALSE, guest |-> None, error |-> error]

\* with_token that reads the claims without verifying the signature.
with_token_unverified(token, key) ==
    LET guest == BTreeMapGet(token.claims, "guest")
    IN  IF IsSome(guest) THEN TokenOk(Unwrap(guest))
        ELSE TokenErr("TokenVerificationError")

\* with_token that takes the name claim when there is no guest claim.
with_token_any_claim(token, key) ==
    LET res == verify_with_key(token, key)
    IN  IF res.ok
        THEN LET guest == BTreeMapGet(Unwrap(res.claims), "guest")
                 name == BTreeMapGet(Unwrap(res.claims), "name")
             IN  IF IsSome(guest) THEN TokenOk(Unwrap(guest))
                 ELSE IF IsSome(name) THEN TokenOk(Unwrap(name))
                 ELSE TokenErr("TokenVerificationError")
        ELSE TokenErr("TokenVerificationError")

\* src/src/main.rs filters::with_token, once the key is read
with_token(token, key) ==
    LET res == verify_with_key(token, key)
    IN  IF res.ok
        THEN LET guest == BTreeMapGet(Unwrap(res.claims), "guest")
             IN  IF IsSome(guest) THEN TokenOk(Unwrap(guest))
                 ELSE TokenErr("TokenVerificationError")
        ELSE TokenErr("TokenVerificationError")

\* src/src/server.rs Server::hello up to the guest lookup: verify_with_key
\* is unwrapped and claims["passcode"] is indexed, so each failure panics.
Server_hello(token, key) ==
    LET res == verify_with_key(token, key)
    IN  IF ~res.ok THEN TokenErr("panic")
        ELSE IF ~IsSome(BTreeMapGet(Unwrap(res.claims), "passcode")) THEN TokenErr("panic")
        ELSE TokenOk(Unwrap(res.claims)["passcode"])

\* tokio::sync::RwLock<Party>: read() is granted while no writer holds the
\* lock, write() while nobody holds it.
FreeLock == [writer |-> 0, readers |-> {}]
read_ready(lock) == lock.writer = 0
write_ready(lock) == lock.writer = 0 /\ lock.readers = {}

\* Party::guest: the document of a guest id, None when there is none or the
\* store query fails.
Party_guest(guests, guest, dbOk) ==
    IF dbOk /\ guest \in DOMAIN guests THEN Some(guests[guest]) ELSE None

\* The documents of the guests collection and the passcodes they carry.
DocIds == {"g1", "g2", "g3"}
Passcodes == {"a", "b"}

\* models::RsvpUpdate: the statuses a POST /rsvp sets.
RsvpUpdates == {"Going", "Declined"}

\* The select of Party::auth: the documents whose passcode field equals
\* the passcode, each as the map the firestore crate hands back (the
\* document id under "_firestore_id"), or an error.
guests_query(docs, passcode, queryOk) ==
    IF ~queryOk THEN [ok |-> FALSE, guests |-> {}]
    ELSE [ok |-> TRUE,
          guests |-> {("_firestore_id" :> d) : d \in {x \in DOMAIN docs : docs[x].passcode = passcode}}]

\* HashMap::remove
HashMap_remove(m, k) == IF k \in DOMAIN m THEN Some(m[k]) ELSE None

\* Party::auth that takes a matching guest however many match.
Party_auth_first_match(docs, passcode, queryOk) ==
    LET query == guests_query(docs, passcode, queryOk)
    IN  IF ~query.ok THEN None
        ELSE IF query.guests = {} THEN None
        ELSE HashMap_remove(CHOOSE g \in query.guests : TRUE, "_firestore_id")

\* src/src/party.rs Party::auth: the id of the one guest the passcode
\* matches.
Party_auth(docs, passcode, queryOk) ==
    LET query == guests_query(docs, passcode, queryOk)
    IN  IF ~query.ok THEN None
        ELSE IF Cardinality(query.guests) # 1 THEN None
        ELSE HashMap_remove(CHOOSE g \in query.guests : TRUE, "_firestore_id")

\* src/src/handlers.rs authenticate under the read guard: the reply with
\* the signed token, or the AuthError rejection.
authenticate(docs, passcode, queryOk, key) ==
    LET guest == Party_auth(docs, passcode, queryOk)
    IN  IF IsSome(guest)
        THEN [ok |-> TRUE, token |-> Some(sign_with_key("guest" :> Unwrap(guest), key)),
              error |-> "none"]
        ELSE [ok |-> FALSE, token |-> None, error |-> "AuthError"]

\* The claims a client's token may carry: a guest id (authenticate) or a
\* passcode under "name" (bin/token.rs).
AuthClaimSets ==
    {("guest" :> d) : d \in DocIds} \cup {("name" :> p) : p \in Passcodes}

\* The Party-Token values a client may send after POST /auth: the token it
\* was issued, that token with one part changed, and tokens signed with
\* either key.
ClientTokens(issued) ==
    LET mine == IF IsSome(issued) THEN {Unwrap(issued)} ELSE {}
    IN  {sign_with_key(c, k) : c \in AuthClaimSets, k \in SigningKeys}
            \cup {FlipSignature(t) : t \in mine}
            \cup {FlipHeader(t) : t \in mine}
            \cup UNION {{FlipClaims(t, c) : c \in AuthClaimSets \ {t.claims}} : t \in mine}

\* The routes that take a token: GET /hello, GET /rsvp, POST /rsvp.
TokenRoutes == {"hello", "get_rsvp", "post_rsvp"}

\* ------------------------------------------------------------------ stored-session gate
\* The stored-session validator behind Extension<BetterAuthSession>
\* (api/rsvp.rs): a session table joined to a user table, with expiry.
\* Latest time the clock reaches.
MaxTime == 3

\* Rows of the session table (token, userId, expiresAt) and of the user
\* table (id, email, name, phone): a live session, one that expired before
\* the first request, and one whose user row is gone.
SessionTable ==
    {[token |-> <<"abc123">>, userId |-> "u1", expiresAt |-> 2],
     [token |-> <<"stale">>, userId |-> "u1", expiresAt |-> 0],
     [token |-> <<"orphan">>, userId |-> "u9", expiresAt |-> 9]}

UserTable == {[id |-> "u1", email |-> "a@b.com", name |-> "Ann", phone |-> ""]}

\* Values of the better-auth.session_token cookie a request may carry:
\* value.signature, a wrong signature, no signature, unknown tokens.
StoredCookies ==
    {None, Some(<<"abc123", ".", "SIGNATURE">>), Some(<<"abc123", ".", "forged">>),
     Some(<<"abc123">>), Some(<<"stale", ".", "SIGNATURE">>),
     Some(<<"orphan", ".", "SIGNATURE">>), Some(<<"unknown", ".", "SIGNATURE">>)}

\* The token of a signed cookie: the part before the first '.'.
extract_session_token(cookie) ==
    IF ~IsSome(cookie) THEN None
    ELSE LET value == Unwrap(cookie)
             i == Find(value, ".")
         IN  IF i = 0 THEN Some(value) ELSE Some(SubSeq(value, 1, i - 1))

\* The joined query: the session row with this token and its user row.
SelectSessionWithUser(sessions, users, token) ==
    {p \in [session : sessions, user : users] :
        p.session.token = token /\ p.user.id = p.session.userId}

\* The validator that also accepts an expired session.
validate_stored_session_ignores_expiry(sessions, users, token, now, dbOk) ==
    LET rows == SelectSessionWithUser(sessions, users, token)
    IN  IF ~dbOk THEN AuthErr("InternalServerError", "Database error")
        ELSE IF rows = {} THEN AuthErr("Unauthorized", "")
        ELSE LET row == CHOOSE p \in rows : TRUE
             IN  AuthOk([user_id |-> row.user.id, email |-> row.user.email,
                         name |-> row.user.name, phone |-> row.user.phone])

\* Stored-session check: no row rejects, a row whose expires_at lies before
\* the validation time rejects, otherwise the joined user is the identity.
validate_stored_session(sessions, users, token, now, dbOk) ==
    LET rows == SelectSessionWithUser(sessions, users, token)
    IN  IF ~dbOk THEN AuthErr("InternalServerError", "Database error")
        ELSE IF rows = {} THEN AuthErr("Unauthorized", "")
        ELSE LET row == CHOOSE p \in rows : TRUE
             IN  IF row.session.expiresAt < now
                 THEN AuthErr("Unauthorized", "")
                 ELSE AuthOk([user_id |-> row.user.id, email |-> row.user.email,
                              name |-> row.user.name, phone |-> row.user.phone])

\* The gate over the stored-session validator: attach and forward, 401, 500.
stored_session_gate(result) ==
    IF result.ok
    THEN Forward(result.session, TRUE)
    ELSE IF result.error = "Unauthorized"
    THEN Answer(Response(UNAUTHORIZED, "Unauthorized", ""), None)
    ELSE Answer(Response(INTERNAL_SERVER_ERROR, "Internal Server Error", ""), Some(result.msg))

\* ------------------------------------------------------------------ sqlx store
\* app/pregame/src/lib.rs over the schema of tests/common/mod.rs
\* (setup_schema), with the pool connected.
\* Highest id each SERIAL sequence hands out.
MaxRows == 2

Ids == 1..MaxRows
TableNames == {"guests", "party", "invitation"}

\* models::RsvpStatus
InvitationStatuses == {"No", "Yes", "Maybe"}

\* create_invitation, update_invitation: match status { .. } to the string bound
status_str(status) ==
    CASE status = "No" -> "no"
      [] status = "Yes" -> "yes"
      [] status = "Maybe" -> "maybe"

\* match status_from_db.as_str() { .., _ => RsvpStatus::Maybe }
parsed_status(status_from_db) ==
    CASE status_from_db = "no" -> "No"
      [] status_from_db = "yes" -> "Yes"
      [] status_from_db = "maybe" -> "Maybe"
      [] OTHER -> "Maybe"

\* DateTime<Utc>: whole microseconds and the nanoseconds below them.
DateTimes == {[micros |-> 7, nanos |-> 0], [micros |-> 7, nanos |-> 500]}

\* Option<DateTime<Utc>> bound to a TIMESTAMPTZ column and read back: the
\* column holds whole microseconds.
timestamptz(date) ==
    IF IsSome(date) THEN Some([Unwrap(date) EXCEPT !.nanos = 0]) ELSE None

\* The arguments of create_* and update_* besides the id.
GuestArgs == [first_name : {"Ann", "Bo"}, last_name : {"Lee"}, phone_number : {"555"}]
PartyArgs ==
    [name : {"Gala"}, location : {"Hall"}, description : {"fun"},
     date : {None} \cup {Some(d) : d \in DateTimes}]
InvitationArgs == [guest_id : Ids, party_id : Ids, status : InvitationStatuses]

\* Rows as the INSERT and UPDATE statements write them.
GuestRecord(id, a) ==
    [id |-> id, first_name |-> a.first_name, last_name |-> a.last_name,
     phone_number |-> a.phone_number]
PartyRecord(id, a) ==
    [id |-> id, name |-> a.name, location |-> a.location,
     description |-> a.description, date |-> timestamptz(a.date)]
InvitationRecord(id, a) ==
    [id |-> id, guest_id |-> a.guest_id, party_id |-> a.party_id,
     status |-> status_str(a.status)]

\* Invitation { .. } built from a row: the status string parsed back.
Invitation(row) == [row EXCEPT !.status = parsed_status(row.status)]

\* sqlx Result of a call, with the tables and sequences it leaves.
SqlOk(value, t, s) == [ok |-> TRUE, value |-> Some(value), tables |-> t, seqs |-> s]
SqlErr(t, s) == [ok |-> FALSE, value |-> None, tables |-> t, seqs |-> s]
\* Ok(())
SqlUnit(t, s) == [ok |-> TRUE, value |-> None, tables |-> t, seqs |-> s]

WhereId(rows, id) == {x \in rows : x.id = id}

\* ORDER BY id
RECURSIVE OrderById(_)
OrderById(rows) ==
    IF rows = {} THEN <<>>
    ELSE LET first == CHOOSE x \in rows : \A y \in rows : x.id <= y.id
         IN  <<first>> \o OrderById(rows \ {first})

\* The rows in descending id order.
RECURSIVE OrderByIdDesc(_)
OrderByIdDesc(rows) ==
    IF rows = {} THEN <<>>
    ELSE LET first == CHOOSE x \in rows : \A y \in rows : x.id >= y.id
         IN  <<first>> \o OrderByIdDesc(rows \ {first})

\* The constraints of the invitation table: UNIQUE(guest_id, party_id) and
\* the two REFERENCES, checked against the other rows.
InvitationViolates(t, row) ==
    \/ \E x \in t.invitation :
          x.id # row.id /\ x.guest_id = row.guest_id /\ x.party_id = row.party_id
    \/ WhereId(t.guests, row.guest_id) = {}
    \/ WhereId(t.party, row.party_id) = {}

\* ---- guests
lib_create_guest(t, s, a) ==
    LET row == GuestRecord(s.guests, a)
    IN  SqlOk(row, [t EXCEPT !.guests = @ \cup {row}], [s EXCEPT !.guests = @ + 1])

lib_get_guest(t, s, guest_id) ==
    LET rows == WhereId(t.guests, guest_id)
    IN  IF rows = {} THEN SqlErr(t, s) ELSE SqlOk(CHOOSE x \in rows : TRUE, t, s)

\* update_guest as an upsert: an absent id gets a row.
update_guest_upsert(t, s, guest_id, a) ==
    LET rows == WhereId(t.guests, guest_id)
        row == GuestRecord(guest_id, a)
    IN  SqlOk(row, [t EXCEPT !.guests = (@ \ rows) \cup {row}], s)

update_guest(t, s, guest_id, a) ==
    LET rows == WhereId(t.guests, guest_id)
        row == GuestRecord(guest_id, a)
    IN  IF rows = {} THEN SqlErr(t, s)
        ELSE SqlOk(row, [t EXCEPT !.guests = (@ \ rows) \cup {row}], s)

\* delete_guest on a schema without ON DELETE CASCADE and without the
\* reference: the invitations of the guest stay.
delete_guest_no_cascade(t, s, guest_id) ==
    SqlUnit([t EXCEPT !.guests = @ \ WhereId(@, guest_id)], s)

\* DELETE FROM guests: the invitations of the guest go with it (ON DELETE CASCADE).
delete_guest(t, s, guest_id) ==
    SqlUnit([t EXCEPT !.guests = @ \ WhereId(@, guest_id),
                          !.invitation = {x \in @ : x.guest_id # guest_id}], s)

\* list_guests without ORDER BY id: the rows come in another order.
list_guests_unordered(t, s) == SqlOk(OrderByIdDesc(t.guests), t, s)

list_guests(t, s) == SqlOk(OrderById(t.guests), t, s)

\* ---- party
\* create_party that does not bind the date.
create_party_null_date(t, s, a) ==
    LET row == [PartyRecord(s.party, a) EXCEPT !.date = None]
    IN  SqlOk(row, [t EXCEPT !.party = @ \cup {row}], [s EXCEPT !.party = @ + 1])

create_party(t, s, a) ==
    LET row == PartyRecord(s.party, a)
    IN  SqlOk(row, [t EXCEPT !.party = @ \cup {row}], [s EXCEPT !.party = @ + 1])

get_party(t, s, party_id) ==
    LET rows == WhereId(t.party, party_id)
    IN  IF rows = {} THEN SqlErr(t, s) ELSE SqlOk(CHOOSE x \in rows : TRUE, t, s)

update_party(t, s, party_id, a) ==
    LET rows == WhereId(t.party, party_id)
        row == PartyRecord(party_id, a)
    IN  IF rows = {} THEN SqlErr(t, s)
        ELSE SqlOk(row, [t EXCEPT !.party = (@ \ rows) \cup {row}], s)

\* delete_party with no WHERE clause.
delete_party_without_where(t, s, party_id) ==
    SqlUnit([t EXCEPT !.party = {}, !.invitation = {}], s)

delete_party(t, s, party_id) ==
    SqlUnit([t EXCEPT !.party = @ \ WhereId(@, party_id),
                          !.invitation = {x \in @ : x.party_id # party_id}], s)

list_parties(t, s) == SqlOk(OrderById(t.party), t, s)

\* ---- invitation
\* The INSERT takes the next id from the sequence before the constraints
\* are checked, so a refused INSERT still uses an id up.
create_invitation(t, s, a) ==
    LET row == InvitationRecord(s.invitation, a)
        used == [s EXCEPT !.invitation = @ + 1]
    IN  IF InvitationViolates(t, row) THEN SqlErr(t, used)
        ELSE SqlOk(Invitation(row), [t EXCEPT !.invitation = @ \cup {row}], used)

get_invitation(t, s, invitation_id) ==
    LET rows == WhereId(t.invitation, invitation_id)
    IN  IF rows = {} THEN SqlErr(t, s)
        ELSE SqlOk(Invitation(CHOOSE x \in rows : TRUE), t, s)

\* update_invitation with no constraint on the new pair.
update_invitation_unchecked(t, s, invitation_id, a) ==
    LET rows == WhereId(t.invitation, invitation_id)
        row == InvitationRecord(invitation_id, a)
    IN  IF rows = {} THEN SqlErr(t, s)
        ELSE SqlOk(Invitation(row), [t EXCEPT !.invitation = (@ \ rows) \cup {row}], s)

update_invitation(t, s, invitation_id, a) ==
    LET rows == WhereId(t.invitation, invitation_id)
        row == InvitationRecord(invitation_id, a)
    IN  IF rows = {} \/ InvitationViolates(t, row) THEN SqlErr(t, s)
        ELSE SqlOk(Invitation(row), [t EXCEPT !.invitation = (@ \ rows) \cup {row}], s)

delete_invitation(t, s, invitation_id) ==
    SqlUnit([t EXCEPT !.invitation = @ \ WhereId(@, invitation_id)], s)

list_invitations(t, s) ==
    LET rows == OrderById(t.invitation)
    IN  SqlOk([i \in 1..Len(rows) |-> Invitation(rows[i])], t, s)

\* ------------------------------------------------------------------ deployments
\* The gates of the repository and the validator and resolver each one calls.
\*   AuthMiddleware   auth.rs, the tower layer
\*   auth_middleware  api.rs (resolver "none") and api/auth.rs (with a resolver)
\*   ory_api_test     research/ory-api-test, the /validate endpoint
Deployments ==
    {[gate |-> "AuthMiddleware", validator |-> "auth", resolver |-> "none"],
     [gate |-> "auth_middleware", validator |-> "auth", resolver |-> "none"],
     [gate |-> "auth_middleware", validator |-> "ory", resolver |-> "none"],
     [gate |-> "auth_middleware", validator |-> "auth", resolver |-> "api_auth"],
     [gate |-> "auth_middleware", validator |-> "auth", resolver |-> "identity"],
     [gate |-> "ory_api_test", validator |-> "kratos", resolver |-> "none"]}

Headers ==
    [cookie : CookieHeaders, authorization : AuthorizationHeaders, xsession : SessionTokenHeaders]

\* A request carries a session-cookie marker when some entry of its Cookie
\* header, trimmed, begins with the session-cookie prefix.
HasSessionCookie(headers) ==
    /\ IsSome(headers.cookie)
    /\ LET entries == Split(Unwrap(headers.cookie).text, ";")
       IN  \E i \in 1..Len(entries) : StartsWith(Trim(entries[i]), SESSION_PREFIX)

\* What the gate sees of an arriving request: whether the headers carry the
\* marker, and the credential the extractor returns for them.
PregameArrivals ==
    {[marker |-> HasSessionCookie(h), cred |-> extract_cookie_access_token(h)] : h \in Headers}

ResearchArrivals ==
    {[marker |-> HasSessionCookie(h) \/ IsSome(h.authorization) \/ IsSome(h.xsession),
      cred |-> extract_token(h)] : h \in Headers}

\* ------------------------------------------------------------------ state
VARIABLES
    deploy,      \* the deployment: gate, validator, resolver (AuthLayer, ApiState)
    req,         \* per request: position in the gate's future and what it decided
    guestTable,  \* rows of the guest table (create_table; api/auth.rs INSERT)
    nextUuid,    \* Uuid::new_v4 in to_guest: the next fresh guest id
    inserts,     \* successful INSERTs into guest, per external identity id
    partyLock,   \* src/src: the tokio RwLock around Party (PartyRc)
    partyGuests, \* src/src: the guests collection, guest id -> rsvp status
    call,        \* src/src: per request, its position in the warp filter chain
    clock,       \* stored-session gate: the current time
    sess,        \* stored-session gate: per request, its position and outcome
    tables,      \* sqlx store (lib.rs): rows of guests, party and invitation
    seqs,        \* sqlx store: the SERIAL sequence of each table
    last,        \* sqlx store: the last call and what it returned
    partyRows,   \* RSVP API: rows of the party table
    rsvpRows,    \* RSVP API: rows of the rsvp table
    nextRsvp,    \* RSVP API: Uuid::new_v4 in get_rsvp_impl, the next fresh rsvp id
    conn,        \* RSVP API: per database connection, the request it serves
    statusColumn, \* model.rs: the status column of the rsvps table, per row id
    decoded,     \* model.rs: what the last call on the rsvps table came to
    scanned,     \* the extractors: the headers of a request and what was extracted
    guestDocs,   \* src/src: the guests collection, document id -> passcode and status
    authCall     \* src/src: per client, its POST /auth and the request that follows

\* The variables of the provider-backed gate, of the passcode/HMAC server,
\* of the stored-session gate and of the sqlx store.
gateVars == <<req, guestTable, nextUuid, inserts>>
warpVars == <<partyLock, partyGuests, call>>
storedVars == <<clock, sess>>
crudVars == <<tables, seqs, last>>
rsvpVars == <<partyRows, rsvpRows, nextRsvp, conn>>
modelVars == <<statusColumn, decoded>>
extractVars == <<scanned>>
authVars == <<guestDocs, authCall>>

\* What each part of the repository leaves alone.
notGate == <<warpVars, storedVars, crudVars, rsvpVars, modelVars, extractVars, authVars>>
notWarp == <<deploy, gateVars, storedVars, crudVars, rsvpVars, modelVars, extractVars, authVars>>
notStored == <<deploy, gateVars, warpVars, crudVars, rsvpVars, modelVars, extractVars, authVars>>
notCrud == <<deploy, gateVars, warpVars, storedVars, rsvpVars, modelVars, extractVars, authVars>>
notRsvp == <<deploy, gateVars, warpVars, storedVars, crudVars, modelVars, extractVars, authVars>>
notModel == <<deploy, gateVars, warpVars, storedVars, crudVars, rsvpVars, extractVars, authVars>>

notExtract == <<deploy, gateVars, warpVars, storedVars, crudVars, rsvpVars, modelVars, authVars>>

notAuth == <<deploy, gateVars, storedVars, crudVars, rsvpVars, modelVars, extractVars, partyGuests, call>>

vars == <<deploy, gateVars, warpVars, storedVars, crudVars, rsvpVars, modelVars, extractVars, authVars>>

Requests == 1..NumRequests

NewRequest ==
    [pc |-> "new", marker |-> FALSE, called |-> FALSE, cause |-> "none",
     reason |-> "none", session |-> None, missed |-> FALSE, guest |-> None,
     ext |-> [session |-> None, guest |-> None], forwarded |-> FALSE,
     handled |-> FALSE, response |-> None, logged |-> None, saw |-> None]

\* The provider-backed gate before any request.
GateIdle ==
    /\ req = [r \in Requests |-> NewRequest]
    /\ guestTable = {}
    /\ nextUuid = 1
    /\ inserts = [i \in Identities |-> 0]

\* A request of the passcode/HMAC server before it arrives.
NewCall ==
    [pc |-> "new", route |-> "none", header |-> None, genuine |-> FALSE,
     guest |-> None, outcome |-> "none"]

\* The passcode/HMAC server after main: lock free, every guest Pending.
WarpIdle ==
    /\ partyLock = FreeLock
    /\ partyGuests = [g \in GuestIds |-> "Pending"]
    /\ call = [r \in Requests |-> NewCall]

\* A request of the stored-session gate before it arrives.
NewStoredRequest ==
    [pc |-> "new", token |-> None, checkedAt |-> 0, expired |-> FALSE,
     ext |-> None, forwarded |-> FALSE, response |-> None]

\* The stored-session gate before any request.
StoredIdle ==
    /\ clock = 1
    /\ sess = [r \in Requests |-> NewStoredRequest]

\* The sqlx store after setup_schema: empty tables, sequences at 1, and no
\* call made yet.
NoCall ==
    [op |-> "none", table |-> "none", id |-> 0, found |-> FALSE, ok |-> TRUE,
     args |-> None, value |-> None]

CrudIdle ==
    /\ tables = [guests |-> {}, party |-> {}, invitation |-> {}]
    /\ seqs = [guests |-> 1, party |-> 1, invitation |-> 1]
    /\ last = NoCall

\* ------------------------------------------------------------------ RSVP API: statements
\* The database connections the handlers run their statements on.
PoolSize == 2
Connections == 1..PoolSize

\* session.user_id of the authenticated users.
Users == {"u1", "u2"}

\* Path(party_id): the id of a party of the table, or "p0", the id of none.
PartyPaths(parties) == {p.party_id : p \in parties} \cup {"p0"}

\* party.time
PartyTimes == {1, 2}

\* deleted_at: NULL, or the time of the soft delete.
NotDeleted == None
DeletedAt == Some("now")

\* let default_status = "pending"; and the status an update request carries.
default_status == "pending"
UpdateStatuses == {"accepted"}

\* SELECT party_id FROM party WHERE party_id = $2 AND deleted_at IS NULL
party_check(parties, party_id) ==
    {p \in parties : p.party_id = party_id /\ p.deleted_at = NotDeleted}

\* ... FROM rsvp r WHERE r.party_id = $2 AND r.user_id = $3 AND r.deleted_at IS NULL
live_rsvp(rsvps, party_id, user_id) ==
    {r \in rsvps : r.party_id = party_id /\ r.user_id = user_id /\ r.deleted_at = NotDeleted}

\* What the statement of get_rsvp_impl reads when it starts: under READ
\* COMMITTED the CTE SELECTs and the final SELECT see the rows committed
\* before the statement began.
get_rsvp_snapshot(parties, rsvps, party_id, user_id) ==
    [party_check |-> party_check(parties, party_id) # {},
     existing |-> live_rsvp(rsvps, party_id, user_id)]

\* The row INSERTed by get_rsvp_impl.
new_rsvp(rsvp_id, party_id, user_id) ==
    [rsvp_id |-> rsvp_id, party_id |-> party_id, user_id |-> user_id,
     status |-> default_status, created_at |-> rsvp_id, deleted_at |-> NotDeleted]

\* ON CONFLICT (party_id, user_id): the unique index holds every row of the
\* table as it is now, soft-deleted rows and rows committed after the
\* statement began included.
conflicts(rsvps, party_id, user_id) ==
    \E r \in rsvps : r.party_id = party_id /\ r.user_id = user_id

\* query_opt of a statement that yields at most one row.
query_opt(rows) == IF rows = {} THEN None ELSE Some(CHOOSE r \in rows : TRUE)

\* What a handler answers: the status code and the body.
Reply(status, body) == [status |-> status, body |-> body]

\* match row { Some(row) => Rsvp::from_row(&row), None => 404 "RSVP not found" }
rsvp_or_not_found(row) ==
    IF row = None THEN Reply(404, None) ELSE Reply(200, row)

\* get_rsvp_impl: the statement run on the rows it saw when it began
\* (snapshot) and on the unique index as it is now (rsvps).
get_rsvp_impl(snapshot, rsvps, rsvp_id, party_id, user_id) ==
    LET inserted == IF snapshot.party_check /\ ~conflicts(rsvps, party_id, user_id)
                    THEN {new_rsvp(rsvp_id, party_id, user_id)} ELSE {}
        selected == IF inserted # {} THEN inserted
                    ELSE IF snapshot.party_check THEN snapshot.existing
                    ELSE {}
    IN  [reply |-> rsvp_or_not_found(query_opt(selected)), rsvps |-> rsvps \cup inserted]

\* update_rsvp_impl with no user_id in the WHERE clause.
update_rsvp_impl_any_user(rsvps, payload, user_id) ==
    LET rows == {r \in rsvps : r.rsvp_id = payload.rsvp_id /\ r.deleted_at = NotDeleted}
        updated == {[r EXCEPT !.status = payload.status] : r \in rows}
    IN  [reply |-> rsvp_or_not_found(query_opt(updated)),
         rsvps |-> (rsvps \ rows) \cup updated]

\* UPDATE rsvp SET status = $1 .. WHERE rsvp_id = $3 AND user_id = $4 AND
\* deleted_at IS NULL RETURNING ..
update_rsvp_impl(rsvps, payload, user_id) ==
    LET rows == {r \in rsvps : /\ r.rsvp_id = payload.rsvp_id
                               /\ r.user_id = user_id
                               /\ r.deleted_at = NotDeleted}
        updated == {[r EXCEPT !.status = payload.status] : r \in rows}
    IN  [reply |-> rsvp_or_not_found(query_opt(updated)),
         rsvps |-> (rsvps \ rows) \cup updated]

\* UPDATE rsvp SET deleted_at = $1 .. WHERE party_id = $2 AND user_id = $3
\* AND deleted_at IS NULL; 404 when no row was affected, else 204.
delete_rsvp_impl(rsvps, party_id, user_id) ==
    LET rows == live_rsvp(rsvps, party_id, user_id)
        deleted == {[r EXCEPT !.deleted_at = DeletedAt] : r \in rows}
    IN  [reply |-> IF rows = {} THEN Reply(404, None) ELSE Reply(204, None),
         rsvps |-> (rsvps \ rows) \cup deleted]

\* The orders in which ORDER BY key ASC can give the rows: rows with equal
\* keys come in any order.
Ordered(rows, key) ==
    {q \in [1..Cardinality(rows) -> rows] :
        /\ \A i, j \in 1..Cardinality(rows) : i # j => q[i] # q[j]
        /\ \A i, j \in 1..Cardinality(rows) : i < j => q[i][key] <= q[j][key]}

\* list_parties_impl that also returns the soft-deleted parties.
list_parties_impl_with_deleted(parties) ==
    {Reply(200, Some(q)) : q \in Ordered(parties, "time")}

\* SELECT .. FROM party WHERE deleted_at IS NULL ORDER BY time ASC
list_parties_impl(parties) ==
    {Reply(200, Some(q)) : q \in Ordered({p \in parties : p.deleted_at = NotDeleted}, "time")}

\* SELECT .. FROM party WHERE party_id = $1 AND deleted_at IS NULL; 404 when
\* rows.is_empty(), else rows[0].
get_party_impl(parties, party_id) ==
    LET rows == party_check(parties, party_id)
    IN  IF rows = {} THEN Reply(404, None) ELSE Reply(200, query_opt(rows))

\* SELECT .. FROM rsvp r WHERE r.party_id = $1 AND r.deleted_at IS NULL
\* ORDER BY r.created_at ASC
get_party_rsvps_impl(rsvps, party_id) ==
    LET rows == {r \in rsvps : r.party_id = party_id /\ r.deleted_at = NotDeleted}
    IN  {Reply(200, Some(q)) : q \in Ordered(rows, "created_at")}

\* guestbook delete_party: UPDATE party SET deleted_at = $1 .. WHERE slug = $2
\* AND deleted_at IS NULL
guestbook_delete_party(parties, slug) ==
    {IF p.party_id = slug /\ p.deleted_at = NotDeleted
     THEN [p EXCEPT !.deleted_at = DeletedAt] ELSE p : p \in parties}

\* A connection that serves no request.
IdleConn ==
    [pc |-> "idle", op |-> "none", user |-> "none", party |-> "none",
     rsvp_id |-> 0, snapshot |-> None, reply |-> None]

\* The party table after guestbook create for the parties of PartyIds.
PartyTable(t1, t2) ==
    {[party_id |-> "p1", time |-> t1, deleted_at |-> NotDeleted],
     [party_id |-> "p2", time |-> t2, deleted_at |-> NotDeleted]}

\* The RSVP API over a database with the given parties and no RSVP.
RsvpIdleWith(parties) ==
    /\ partyRows = parties
    /\ rsvpRows = {}
    /\ nextRsvp = 1
    /\ conn = [c \in Connections |-> IdleConn]

\* The party table with one party.
OneParty == {[party_id |-> "p1", time |-> 1, deleted_at |-> NotDeleted]}

RsvpIdle == RsvpIdleWith(OneParty)

\* ------------------------------------------------------------------ model.rs: RSVP status
\* model::RsvpStatus
RsvpStatuses4 == {"Pending", "Accepted", "Maybe", "Declined"}

\* The i32 values the status column of a row can hold.
StatusInts == {-2147483647 - 1, -1, 0, 1, 2, 3, 4, 2147483647}

\* The ids of the rows of the rsvps table.
RsvpRowIds == {1, 2}

\* Rsvp::update_rsvp: let status_value: i32 = match status { .. }
status_value(status) ==
    CASE status = "Pending" -> 0
      [] status = "Accepted" -> 1
      [] status = "Maybe" -> 2
      [] status = "Declined" -> 3

\* What a call comes to: a value, or a panic of the task that made it.
Returns(value) == [panic |-> FALSE, value |-> Some(value)]
Panics == [panic |-> TRUE, value |-> None]

\* The match of from_row with a wildcard arm that yields Pending.
status_of_i32_lenient(v) ==
    CASE v = 1 -> Returns("Accepted")
      [] v = 2 -> Returns("Maybe")
      [] v = 3 -> Returns("Declined")
      [] OTHER -> Returns("Pending")

\* Rsvp::from_row: match row.try_get("status")? { 0 => .., 1 => .., 2 => ..,
\* 3 => .., _ => panic!("Invalid status") }
status_of_i32(v) ==
    CASE v = 0 -> Returns("Pending")
      [] v = 1 -> Returns("Accepted")
      [] v = 2 -> Returns("Maybe")
      [] v = 3 -> Returns("Declined")
      [] OTHER -> Panics

\* Rsvp::from_row of the row with the given id and status column.
Rsvp_from_row(id, v) ==
    LET status == status_of_i32(v)
    IN  IF status.panic THEN Panics
        ELSE Returns([id |-> id, status |-> Unwrap(status.value)])

\* Party::get_rsvps_by_party_with_guest: every row is decoded in turn, and
\* the first status out of range panics.
RECURSIVE rows_map(_, _)
rows_map(ids, column) ==
    IF ids = {} THEN Returns(<<>>)
    ELSE LET id == CHOOSE i \in ids : \A j \in ids : i <= j
             head == Rsvp_from_row(id, column[id])
             tail == rows_map(ids \ {id}, column)
         IN  IF head.panic \/ tail.panic THEN Panics
             ELSE Returns(<<Unwrap(head.value)>> \o Unwrap(tail.value))

\* No call made on the rsvps table yet.
NoDecode == [op |-> "none", id |-> 0, sent |-> None, result |-> None]

\* The rsvps table with every row Pending.
ModelIdle ==
    /\ statusColumn = [id \in RsvpRowIds |-> 0]
    /\ decoded = NoDecode

\* No request has been handed to an extractor.
NoHeaders == [cookie |-> None, authorization |-> None, xsession |-> None]
ExtractIdle == scanned = [headers |-> NoHeaders, done |-> FALSE, auth |-> None, research |-> None]

\* A client of the passcode/HMAC server before its POST /auth.
NewAuthCall ==
    [pc |-> "new", passcode |-> None, queryOk |-> TRUE, token |-> None,
     outcome |-> "none", presented |-> None, accepted |-> FALSE, guest |-> None]

\* The guests collection before any request: every guest Pending, every
\* passcode the first one.
AuthIdle ==
    /\ guestDocs = [d \in DocIds |-> [passcode |-> "a", status |-> "Pending"]]
    /\ authCall = [r \in Requests |-> NewAuthCall]

Init ==
    /\ deploy \in Deployments
    /\ GateIdle
    /\ WarpIdle
    /\ StoredIdle
    /\ CrudIdle
    /\ RsvpIdle
    /\ ModelIdle
    /\ ExtractIdle
    /\ AuthIdle

\* What the environment did to the provider call, as the cause of a failure.
CauseOfReply(reply) ==
    IF ~reply.sent THEN "network failure"
    ELSE IF ~is_success(reply.status)
    THEN "provider error status"
    ELSE IF ~reply.decodable THEN "undecodable response"
    ELSE IF ~reply.session.active THEN "inactive session"
    ELSE "none"

Validate(reply) ==
    IF deploy.validator = "auth" THEN validate_token(reply, deploy.resolver # "none")
    ELSE IF deploy.validator = "ory" THEN ory_validate_token(reply)
    ELSE validate_session_with_kratos(reply)

Decide(result) ==
    IF deploy.gate = "AuthMiddleware" THEN AuthMiddleware_call(result)
    ELSE IF deploy.gate = "auth_middleware" THEN auth_middleware(result)
    ELSE ory_api_test_validate(result)

\* The response for a request without credential.
NoCredentialResponse ==
    IF deploy.gate = "ory_api_test"
    THEN Response(UNAUTHORIZED, "No session token provided", "")
    ELSE Response(UNAUTHORIZED, "Unauthorized", "")

\* The reject reason of a request the gate answers itself: the validator's
\* error, or Unauthorized when the endpoint answers 401 for a decoded session.
RejectReason(result, d) ==
    IF ~result.ok THEN result.error
    ELSE IF Unwrap(d.response).status = UNAUTHORIZED THEN "Unauthorized"
    ELSE "none"

\* ------------------------------------------------------------------ actions
\* A request arrives: the gate extracts the credential; without one it
\* answers 401 at once, with one it calls the validator and awaits the provider.
Arrive(r) ==
    /\ req[r].pc = "new"
    /\ IF r = 1 THEN TRUE ELSE req[r - 1].pc # "new"
    /\ \E a \in IF deploy.gate = "ory_api_test" THEN ResearchArrivals ELSE PregameArrivals :
          req' = [req EXCEPT ![r] =
                    IF IsSome(a.cred)
                    THEN [@ EXCEPT !.pc = "validate", !.marker = a.marker,
                                   !.called = TRUE]
                    ELSE [@ EXCEPT !.pc = "done", !.marker = a.marker,
                                   !.cause = IF a.marker THEN "malformed credential"
                                             ELSE "absent credential",
                                   !.reason = "Unauthorized",
                                   !.response = Some(NoCredentialResponse)]]
    /\ UNCHANGED <<deploy, guestTable, nextUuid, inserts, notGate>>

\* The provider call returns: validate_token yields its result and the gate
\* forwards, answers, or (api/auth.rs) goes on to resolve the guest.
ProviderReply(r) ==
    /\ req[r].pc = "validate"
    /\ \E reply \in ProviderReplies :
          LET result == Validate(reply)
              d == Decide(result)
          IN  req' = [req EXCEPT ![r] =
                 IF ~d.forward
                 THEN [@ EXCEPT !.pc = "done",
                                !.cause = CauseOfReply(reply),
                                !.reason = RejectReason(result, d),
                                !.response = d.response, !.logged = d.logged]
                 ELSE IF deploy.resolver = "none"
                 THEN [@ EXCEPT !.pc = "next",
                                !.cause = CauseOfReply(reply),
                                !.session = d.session, !.ext.session = d.ext,
                                !.forwarded = TRUE]
                 ELSE IF ~IsSome(result.session.identity)
                 THEN [@ EXCEPT !.pc = "done",
                                !.cause = "missing identity",
                                !.reason = "Unauthorized",
                                !.response = Some(Response(UNAUTHORIZED, "No identity in session", ""))]
                 ELSE [@ EXCEPT !.pc = "get_guest",
                                !.cause = CauseOfReply(reply),
                                !.session = d.session]]
    /\ UNCHANGED <<deploy, guestTable, nextUuid, inserts, notGate>>

\* The gate's last step for an authenticated request with a resolved guest:
\* session and guest go into the request extensions and next.run is called.
Attach(rq, guest) ==
    [rq EXCEPT !.pc = "next", !.guest = Some(guest), !.ext.session = rq.session,
               !.ext.guest = Some(guest), !.forwarded = TRUE]

\* A resolver step failed: the error response is the gate's answer.
Fail(rq, res, cause) ==
    [rq EXCEPT !.pc = "done", !.cause = cause, !.response = res.response,
               !.logged = res.logged, !.session = None,
               !.reason = IF Unwrap(res.response).status = UNAUTHORIZED
                          THEN "Unauthorized" ELSE "InternalServerError"]

\* The guest lookup of get_or_create_guest returns.
GetGuest(r) ==
    /\ req[r].pc = "get_guest"
    /\ \E dbOk \in BOOLEAN :
          LET identity == Unwrap(Unwrap(req[r].session).identity)
              res == IF deploy.resolver = "api_auth"
                     THEN get_guest(guestTable, identity.id, dbOk)
                     ELSE identity_lookup(guestTable, identity.id, dbOk)
          IN  req' = [req EXCEPT ![r] =
                 IF res.kind = "found" THEN Attach(@, Unwrap(res.guest))
                 ELSE IF res.kind = "missing"
                 THEN [@ EXCEPT !.pc = "create_guest", !.missed = TRUE]
                 ELSE Fail(@, res, "database failure")]
    /\ UNCHANGED <<deploy, guestTable, nextUuid, inserts, notGate>>

\* The guest is created: api/auth.rs builds it from the session, inserts it
\* and returns it; identity.rs inserts it and goes on to fetch it back.
CreateGuest(r) ==
    /\ req[r].pc = "create_guest"
    /\ \E dbOk \in BOOLEAN :
          LET session == Unwrap(req[r].session)
              identity == Unwrap(session.identity)
              res == IF deploy.resolver = "api_auth"
                     THEN create_guest(guestTable, session, nextUuid, dbOk)
                     ELSE identity_insert(guestTable, identity, nextUuid, dbOk)
          IN  IF res.kind = "found"
              THEN /\ guestTable' = guestTable \cup {Unwrap(res.guest)}
                   /\ nextUuid' = nextUuid + 1
                   /\ inserts' = [inserts EXCEPT ![identity.id] = @ + 1]
                   /\ req' = [req EXCEPT ![r] =
                         IF deploy.resolver = "api_auth"
                         THEN Attach(@, Unwrap(res.guest))
                         ELSE [@ EXCEPT !.pc = "fetch_guest", !.guest = res.guest]]
              ELSE /\ req' = [req EXCEPT ![r] =
                         Fail(@, res, IF ~dbOk THEN "database failure"
                                      ELSE IF deploy.resolver = "api_auth"
                                              /\ ~to_guest(session, nextUuid).ok
                                      THEN "missing required trait"
                                      ELSE "guest already exists")]
                   /\ UNCHANGED <<guestTable, nextUuid, inserts>>
    /\ UNCHANGED <<deploy, notGate>>

\* identity.rs: the new row is fetched back by guest_id and returned.
FetchGuest(r) ==
    /\ req[r].pc = "fetch_guest"
    /\ \E dbOk \in BOOLEAN :
          LET res == identity_fetch(guestTable, Unwrap(req[r].guest).guest_id, dbOk)
          IN  req' = [req EXCEPT ![r] =
                 IF res.kind = "found" THEN Attach(@, Unwrap(res.guest))
                 ELSE Fail([@ EXCEPT !.guest = None], res, "database failure")]
    /\ UNCHANGED <<deploy, guestTable, nextUuid, inserts, notGate>>

\* The next stage runs: a downstream handler reads the session from the
\* request extensions (Extension<_> answers 500 when it is not there) and
\* its response is the request's response.
Handler(r) ==
    /\ req[r].pc = "next"
    /\ \E needsSession \in BOOLEAN :
          req' = [req EXCEPT ![r] =
                    [@ EXCEPT !.pc = "done", !.handled = TRUE,
                              !.saw = IF needsSession THEN req[r].ext.session ELSE None,
                              !.response =
                                  IF needsSession /\ ~IsSome(req[r].ext.session)
                                  THEN Some(Response(INTERNAL_SERVER_ERROR,
                                                     "Missing request extension", ""))
                                  ELSE Some(Response(OK, "handled", ""))]]
    /\ UNCHANGED <<deploy, guestTable, nextUuid, inserts, notGate>>

Next ==
    \E r \in Requests :
        \/ Arrive(r)
        \/ ProviderReply(r)
        \/ GetGuest(r)
        \/ CreateGuest(r)
        \/ FetchGuest(r)
        \/ Handler(r)

Spec == Init /\ [][Next]_vars

\* Requests handled one after the other: a request arrives only when every
\* earlier one has been answered.
ArriveInSequence(r) ==
    /\ \A q \in Requests : req[q].pc \in {"new", "done"}
    /\ Arrive(r)

NextSeq ==
    \E r \in Requests :
        \/ ArriveInSequence(r)
        \/ ProviderReply(r)
        \/ GetGuest(r)
        \/ CreateGuest(r)
        \/ FetchGuest(r)
        \/ Handler(r)

SpecSeq == Init /\ [][NextSeq]_vars

\* ------------------------------------------------------------------ passcode/HMAC server: actions
\* The token filters of src/src: main.rs filters (with handlers.rs) and the
\* earlier Server::hello.
WarpDeployments ==
    {[gate |-> "with_token", validator |-> "verify_with_key", resolver |-> "none"],
     [gate |-> "Server_hello", validator |-> "verify_with_key", resolver |-> "none"]}

\* The token was signed with the key the server holds and not changed since.
Genuine(entry) == entry.key = PARTY_KEY /\ ~entry.modified

\* The token filter has run on a request's token.
Checked(c, entry) ==
    LET res == with_token(entry.token, PARTY_KEY)
    IN  IF res.ok
        THEN [c EXCEPT !.pc = "handler", !.header = None, !.guest = res.guest,
                       !.genuine = Genuine(entry)]
        ELSE [c EXCEPT !.pc = "done", !.header = None, !.outcome = res.error,
                       !.genuine = Genuine(entry)]

\* Server::hello from the token to the reply: no await, one step.
HelloDone(c, entry, dbOk) ==
    LET res == Server_hello(entry.token, PARTY_KEY)
    IN  IF ~res.ok
        THEN [c EXCEPT !.pc = "done", !.outcome = res.error, !.genuine = Genuine(entry)]
        ELSE [c EXCEPT !.pc = "done", !.guest = res.guest, !.genuine = Genuine(entry),
                       !.outcome = IF IsSome(Party_guest(partyGuests, Unwrap(res.guest), dbOk))
                                   THEN "reply" ELSE "panic"]

\* A request arrives. warp::header rejects a request without Party-Token;
\* with_token then awaits party_lock.read(): granted at once it verifies
\* the token without suspending, otherwise the request waits for the lock.
WarpArrive(r) ==
    /\ call[r].pc = "new"
    /\ IF r = 1 THEN TRUE ELSE call[r - 1].pc # "new"
    /\ IF deploy.gate = "Server_hello"
       THEN \E entry \in PartyTokens : \E dbOk \in BOOLEAN :
               call' = [call EXCEPT ![r] = HelloDone([@ EXCEPT !.route = "hello"], entry, dbOk)]
       ELSE \E route \in TokenRoutes : \E header \in {None} \cup {Some(e) : e \in PartyTokens} :
               call' = [call EXCEPT ![r] =
                          IF ~IsSome(header)
                          THEN [@ EXCEPT !.pc = "done", !.route = route,
                                         !.outcome = "MissingHeader"]
                          ELSE IF read_ready(partyLock)
                          THEN Checked([@ EXCEPT !.route = route], Unwrap(header))
                          ELSE [@ EXCEPT !.pc = "with_token", !.route = route,
                                         !.header = header]]
    /\ UNCHANGED <<notWarp, partyLock, partyGuests>>

\* The read lock a waiting with_token asked for is granted: it verifies the
\* token and drops the guard.
TokenCheck(r) ==
    /\ call[r].pc = "with_token"
    /\ read_ready(partyLock)
    /\ call' = [call EXCEPT ![r] = Checked(@, Unwrap(call[r].header))]
    /\ UNCHANGED <<notWarp, partyLock, partyGuests>>

\* The handler takes the party lock: update_rsvp for writing, hello and
\* get_guest for reading.
HandlerLock(r) ==
    /\ call[r].pc = "handler"
    /\ IF call[r].route = "post_rsvp"
       THEN /\ write_ready(partyLock)
            /\ partyLock' = [partyLock EXCEPT !.writer = r]
       ELSE /\ read_ready(partyLock)
            /\ partyLock' = [partyLock EXCEPT !.readers = @ \cup {r}]
    /\ call' = [call EXCEPT ![r].pc = "locked"]
    /\ UNCHANGED <<notWarp, partyGuests>>

\* The handler's store call returns under the lock: Party::guest for hello
\* and get_guest, Party::rsvp for update_rsvp; the guard is dropped.
HandlerReply(r) ==
    /\ call[r].pc = "locked"
    /\ \E dbOk \in BOOLEAN :
       \E rsvp_status \in IF call[r].route = "post_rsvp" THEN RsvpStatuses ELSE {"Pending"} :
          LET guest == Unwrap(call[r].guest)
              found == IsSome(Party_guest(partyGuests, guest, dbOk))
          IN  /\ call' = [call EXCEPT ![r].pc = "done",
                                      ![r].outcome = IF found THEN "reply"
                                                     ELSE "GuestNotFoundError"]
              /\ partyGuests' = IF found /\ call[r].route = "post_rsvp"
                                THEN [partyGuests EXCEPT ![guest] = rsvp_status]
                                ELSE partyGuests
    /\ partyLock' = IF partyLock.writer = r THEN FreeLock
                    ELSE [partyLock EXCEPT !.readers = @ \ {r}]
    /\ UNCHANGED notWarp

InitParty ==
    /\ deploy \in WarpDeployments
    /\ GateIdle
    /\ WarpIdle
    /\ StoredIdle
    /\ CrudIdle
    /\ RsvpIdle
    /\ ModelIdle
    /\ ExtractIdle
    /\ AuthIdle

NextParty ==
    \E r \in Requests :
        \/ WarpArrive(r)
        \/ TokenCheck(r)
        \/ HandlerLock(r)
        \/ HandlerReply(r)

SpecParty == InitParty /\ [][NextParty]_vars

\* ------------------------------------------------------------------ stored-session gate: actions
\* Time passes.
Tick ==
    /\ clock < MaxTime
    /\ clock' = clock + 1
    /\ UNCHANGED <<notStored, sess>>

\* A request arrives: without the session cookie it is answered 401, with
\* one the token before the first '.' goes to the validator's query.
StoredArrive(r) ==
    /\ sess[r].pc = "new"
    /\ IF r = 1 THEN TRUE ELSE sess[r - 1].pc # "new"
    /\ \E cookie \in StoredCookies :
          LET token == extract_session_token(cookie)
          IN  sess' = [sess EXCEPT ![r] =
                 IF IsSome(token)
                 THEN [@ EXCEPT !.pc = "query", !.token = token]
                 ELSE [@ EXCEPT !.pc = "done",
                                !.response = Some(Response(UNAUTHORIZED, "Unauthorized", ""))]]
    /\ UNCHANGED <<notStored, clock>>

\* The query returns and the validator compares expires_at with the time
\* of validation; the gate attaches the identity and forwards, or answers.
StoredValidate(r) ==
    /\ sess[r].pc = "query"
    /\ \E dbOk \in BOOLEAN :
          LET token == Unwrap(sess[r].token)
              result == validate_stored_session(SessionTable, UserTable, token, clock, dbOk)
              d == stored_session_gate(result)
              rows == SelectSessionWithUser(SessionTable, UserTable, token)
          IN  sess' = [sess EXCEPT ![r] =
                 [@ EXCEPT !.pc = IF d.forward THEN "next" ELSE "done",
                           !.checkedAt = clock,
                           !.expired = dbOk /\ \E p \in rows : p.session.expiresAt < clock,
                           !.ext = d.ext, !.forwarded = d.forward,
                           !.response = d.response]]
    /\ UNCHANGED <<notStored, clock>>

\* The next stage runs with the attached identity.
StoredHandler(r) ==
    /\ sess[r].pc = "next"
    /\ sess' = [sess EXCEPT ![r].pc = "done",
                            ![r].response = Some(Response(OK, "handled", ""))]
    /\ UNCHANGED <<notStored, clock>>

InitStored ==
    /\ deploy = [gate |-> "stored_session", validator |-> "stored_session", resolver |-> "none"]
    /\ GateIdle
    /\ WarpIdle
    /\ StoredIdle
    /\ CrudIdle
    /\ RsvpIdle
    /\ ModelIdle
    /\ ExtractIdle
    /\ AuthIdle

NextStored ==
    \/ Tick
    \/ \E r \in Requests :
          \/ StoredArrive(r)
          \/ StoredValidate(r)
          \/ StoredHandler(r)

SpecStored == InitStored /\ [][NextStored]_vars

\* ------------------------------------------------------------------ sqlx store: actions
\* A call is made and returns: its effect on the store and what the caller
\* gets. The caller makes its next call once it has taken the result.
Apply(op, tb, id, args, res) ==
    /\ last = NoCall
    /\ tables' = res.tables
    /\ seqs' = res.seqs
    /\ last' = [op |-> op, table |-> tb,
                id |-> IF op = "create" /\ res.ok THEN Unwrap(res.value).id ELSE id,
                found |-> WhereId(tables[tb], id) # {}, ok |-> res.ok,
                args |-> args, value |-> res.value]
    /\ UNCHANGED notCrud

\* The caller takes the result of its call.
Returned ==
    /\ last # NoCall
    /\ last' = NoCall
    /\ UNCHANGED <<notCrud, tables, seqs>>

CallCreate ==
    \/ /\ seqs.guests <= MaxRows
       /\ \E a \in GuestArgs :
             Apply("create", "guests", 0, Some(a), lib_create_guest(tables, seqs, a))
    \/ /\ seqs.party <= MaxRows
       /\ \E a \in PartyArgs :
             Apply("create", "party", 0, Some(a), create_party(tables, seqs, a))
    \/ /\ seqs.invitation <= MaxRows
       /\ \E a \in InvitationArgs :
             Apply("create", "invitation", 0, Some(a), create_invitation(tables, seqs, a))

CallGet ==
    \E id \in Ids :
        \/ Apply("get", "guests", id, None, lib_get_guest(tables, seqs, id))
        \/ Apply("get", "party", id, None, get_party(tables, seqs, id))
        \/ Apply("get", "invitation", id, None, get_invitation(tables, seqs, id))

CallUpdate ==
    \E id \in Ids :
        \/ \E a \in GuestArgs :
              Apply("update", "guests", id, Some(a), update_guest(tables, seqs, id, a))
        \/ \E a \in PartyArgs :
              Apply("update", "party", id, Some(a), update_party(tables, seqs, id, a))
        \/ \E a \in InvitationArgs :
              Apply("update", "invitation", id, Some(a), update_invitation(tables, seqs, id, a))

CallDelete ==
    \E id \in Ids :
        \/ Apply("delete", "guests", id, None, delete_guest(tables, seqs, id))
        \/ Apply("delete", "party", id, None, delete_party(tables, seqs, id))
        \/ Apply("delete", "invitation", id, None, delete_invitation(tables, seqs, id))

CallList ==
    \/ Apply("list", "guests", 0, None, list_guests(tables, seqs))
    \/ Apply("list", "party", 0, None, list_parties(tables, seqs))
    \/ Apply("list", "invitation", 0, None, list_invitations(tables, seqs))

InitCrud ==
    /\ deploy = [gate |-> "none", validator |-> "none", resolver |-> "none"]
    /\ GateIdle
    /\ WarpIdle
    /\ StoredIdle
    /\ CrudIdle
    /\ RsvpIdle
    /\ ModelIdle
    /\ ExtractIdle
    /\ AuthIdle

NextCrud == CallCreate \/ CallGet \/ CallUpdate \/ CallDelete \/ CallList \/ Returned

SpecCrud == InitCrud /\ [][NextCrud]_vars

\* ------------------------------------------------------------------ properties
Arrived(r) == req[r].pc # "new"

Answered(r) == req[r].pc = "done" /\ IsSome(req[r].response)

StatusOf(r) == Unwrap(req[r].response).status

\* The gate answered the request itself, with a reject reason.
Rejected(r) == req[r].pc = "done" /\ ~req[r].forwarded /\ req[r].reason # "none"

\* C1: a request whose headers carry no recognised credential marker is
\* answered 401 Unauthorized and the validator is never invoked for it.
C1_NoCredentialIsUnauthorized ==
    \A r \in Requests :
        (Arrived(r) /\ ~req[r].marker) =>
            /\ Answered(r)
            /\ StatusOf(r) = UNAUTHORIZED
            /\ req[r].reason = "Unauthorized"
            /\ ~req[r].called
            /\ ~req[r].forwarded

C1_Witness ==
    \E r \in Requests :
        /\ deploy.gate = "AuthMiddleware"
        /\ Arrived(r) /\ ~req[r].marker
        /\ Answered(r) /\ StatusOf(r) = UNAUTHORIZED

\* C2: each request reaches exactly one terminal outcome: it is forwarded
\* and handled only after its credential was validated successfully, and a
\* rejected request keeps its error response, is never handled and never
\* becomes authenticated.
C2_GateOutcomeIsTerminal ==
    [][\A r \in Requests :
          /\ (req'[r].forwarded \/ req'[r].handled) =>
                /\ req'[r].called
                /\ IsSome(req'[r].session)
                /\ Unwrap(req'[r].session).active
          /\ Rejected(r) =>
                /\ req'[r] = req[r]
                /\ ~req[r].handled
                /\ StatusOf(r) \in {UNAUTHORIZED, INTERNAL_SERVER_ERROR}
          /\ req[r].forwarded => req'[r].forwarded /\ req'[r].reason = "none"]_vars

C2_Witness ==
    \E r, q \in Requests :
        /\ deploy.resolver = "api_auth"
        /\ Rejected(r) /\ req[r].called
        /\ req[q].handled /\ req[q].forwarded

\* C3: whenever the gate forwards a request, the validated session is in
\* the request's extensions, so a handler that runs reads it.
C3_ForwardedHasIdentityAttached ==
    \A r \in Requests :
        req[r].forwarded =>
            /\ IsSome(req[r].session)
            /\ req[r].ext.session = req[r].session

\* C4: a non-2xx provider response is answered 500, never 401, and the
\* request is not forwarded.
C4_ProviderErrorStatusIs500 ==
    \A r \in Requests :
        (req[r].cause = "provider error status" /\ req[r].pc \in {"next", "done"}) =>
            /\ ~req[r].forwarded
            /\ Answered(r)
            /\ StatusOf(r) = INTERNAL_SERVER_ERROR

\* C5: a provider answer that decodes to a session with active = false is
\* rejected as Unauthorized: 401, not forwarded.
C5_InactiveSessionIs401 ==
    \A r \in Requests :
        (req[r].cause = "inactive session" /\ req[r].pc # "validate") =>
            /\ Answered(r)
            /\ StatusOf(r) = UNAUTHORIZED
            /\ ~req[r].forwarded
            /\ ~req[r].handled
            /\ deploy.gate # "ory_api_test" => req[r].reason = "Unauthorized"

C5_Witness ==
    \E r \in Requests :
        /\ deploy.gate = "AuthMiddleware"
        /\ req[r].cause = "inactive session"
        /\ Answered(r) /\ StatusOf(r) = UNAUTHORIZED

\* Causes that are downstream faults, not verdicts on the credential.
DownstreamFaults ==
    {"network failure", "provider error status", "undecodable response", "database failure"}

\* C6: the gate never conflates the two reject kinds: Unauthorized is
\* answered 401, InternalError is answered 500, and no downstream fault
\* (network failure, provider error status, undecodable response) is
\* answered 401.
C6_RejectKindsNotConflated ==
    \A r \in Requests :
        Rejected(r) =>
            /\ req[r].reason = "Unauthorized" => StatusOf(r) = UNAUTHORIZED
            /\ req[r].reason = "InternalServerError" => StatusOf(r) = INTERNAL_SERVER_ERROR
            /\ req[r].cause \in DownstreamFaults => StatusOf(r) # UNAUTHORIZED

\* Causes that are verdicts on the credential.
CredentialFaults == {"absent credential", "malformed credential", "inactive session"}

\* The causes the taxonomy lists for InternalError.
ListedInternalCauses ==
    {"network failure", "undecodable response", "database failure", "missing required trait"}

C8_ResponseDependsOnlyOnKind ==
    \A r, q \in Requests :
        (Rejected(r) /\ Rejected(q) /\ req[r].reason = req[q].reason) =>
            /\ req[r].response = req[q].response
            /\ Unwrap(req[r].response).detail = ""

\* The request got a guest from get-or-create for external identity i.
ResolvedFor(r, i) ==
    IsSome(req[r].guest) /\ req[r].forwarded /\ Unwrap(req[r].guest).ory_identity_id = i

\* C9: get-or-create called in sequence for the same external identity
\* returns the same guest id each time and inserts exactly one guest row.
C9_GetOrCreateIdempotent ==
    \A i \in Identities :
        \A r, q \in Requests :
            (ResolvedFor(r, i) /\ ResolvedFor(q, i)) =>
                /\ Unwrap(req[r].guest).guest_id = Unwrap(req[q].guest).guest_id
                /\ inserts[i] = 1
                /\ Cardinality(SelectByOryIdentity(guestTable, i)) = 1

C9_Witness ==
    \E r, q \in Requests :
        /\ r # q
        /\ deploy.resolver = "api_auth"
        /\ ResolvedFor(r, "i1") /\ ResolvedFor(q, "i1")
        /\ req[r].pc = "done" /\ req[q].pc = "done"

C11_ConcurrentFirstRequestsShareGuest ==
    \A r, q \in Requests :
        /\ req[r].missed => req[r].cause # "guest already exists"
        /\ \A i \in Identities :
              (req[r].missed /\ req[q].missed /\ ResolvedFor(r, i) /\ ResolvedFor(q, i)) =>
                  Unwrap(req[r].guest).guest_id = Unwrap(req[q].guest).guest_id

\* The external identity has the traits the guest record requires.
HasRequiredTraits(identity) ==
    IsSome(identity.traits.name) /\ IsSome(identity.traits.email)

\* C12: for an identity without name or without email no guest row is ever
\* inserted and get-or-create answers 500; a missing phone is not an error.
C12_MissingRequiredTraitFails ==
    /\ \A identity \in OryIdentity :
          ~HasRequiredTraits(identity) =>
              /\ inserts[identity.id] = 0
              /\ \A r \in Requests : ~ResolvedFor(r, identity.id)
    /\ \A r \in Requests :
          req[r].cause = "missing required trait" =>
              /\ StatusOf(r) = INTERNAL_SERVER_ERROR
              /\ ~req[r].forwarded

\* The token filter handed a guest to the handler.
PassedTokenCheck(r) == IsSome(call[r].guest)

\* C13: a request passes the local signature check only with a token that
\* was signed with the server's key and not changed afterwards; every other
\* token is rejected and its request reaches no handler.
C13_OnlyGenuineTokensPass ==
    \A r \in Requests :
        /\ PassedTokenCheck(r) => call[r].genuine
        /\ call[r].pc \in {"handler", "locked"} => PassedTokenCheck(r)
        /\ call[r].outcome \in {"reply", "GuestNotFoundError"} => PassedTokenCheck(r)

C13_Witness ==
    \E r, q \in Requests :
        /\ deploy.gate = "with_token"
        /\ call[r].outcome = "reply" /\ call[r].genuine
        /\ call[q].outcome = "TokenVerificationError" /\ ~call[q].genuine

\* C14: the token check never waits: no request is ever parked at
\* with_token, whatever the other requests hold.
C14_TokenCheckNeverWaits ==
    \A r \in Requests : call[r].pc # "with_token"

\* C15: a session whose expires_at lies strictly before the validation time
\* is answered 401 and never forwarded, well-formed row and user or not.
C15_ExpiredSessionIs401 ==
    \A r \in Requests :
        sess[r].expired =>
            /\ sess[r].pc = "done"
            /\ ~sess[r].forwarded
            /\ ~IsSome(sess[r].ext)
            /\ Unwrap(sess[r].response).status = UNAUTHORIZED

\* The live session abc123 (expires at 2) validated once before and once
\* after its expiry.
C15_Witness ==
    \E r, q \in Requests :
        /\ sess[r].token = Some(<<"abc123">>) /\ sess[r].expired /\ sess[r].checkedAt = 3
        /\ sess[q].token = Some(<<"abc123">>) /\ sess[q].forwarded /\ sess[q].checkedAt = 2

\* ------------------------------------------------------------------ gRPC service
\* The status strings a request can carry.
StatusStrings == {"no", "yes", "maybe", "invalid", "Yes", ""}

\* match req.status.as_str() { "no" => .., "yes" => .., "maybe" => .., _ => return Err(..) }
status_of_request(status) ==
    CASE status = "no" -> Some("No")
      [] status = "yes" -> Some("Yes")
      [] status = "maybe" -> Some("Maybe")
      [] OTHER -> None

\* format!("{:?}", invitation.status).to_lowercase()
status_of_response(status) ==
    CASE status = "No" -> "no"
      [] status = "Yes" -> "yes"
      [] status = "Maybe" -> "maybe"

\* What a service method answers, with the number of store calls it made and
\* the tables and sequences it leaves.
GrpcErr(code, queries, t, s) ==
    [ok |-> FALSE, value |-> Some([code |-> code]), queries |-> queries,
     tables |-> t, seqs |-> s]
GrpcOk(invitation, res) ==
    [ok |-> TRUE,
     value |-> Some([code |-> "Ok",
                     invitation |-> [invitation EXCEPT !.status = status_of_response(@)]]),
     queries |-> 1, tables |-> res.tables, seqs |-> res.seqs]

\* The outcome of the store call, as the method maps it.
GrpcReply(res) ==
    IF res.ok THEN GrpcOk(Unwrap(res.value), res)
    ELSE GrpcErr("Internal", 1, res.tables, res.seqs)

\* create_invitation that lets an unknown status through as maybe.
MyPartyService_create_invitation_lenient(t, s, request) ==
    LET status == status_of_request(request.status)
        a == [guest_id |-> request.guest_id, party_id |-> request.party_id,
              status |-> IF status = None THEN "Maybe" ELSE Unwrap(status)]
    IN  GrpcReply(create_invitation(t, s, a))

MyPartyService_create_invitation(t, s, request) ==
    LET status == status_of_request(request.status)
    IN  IF status = None THEN GrpcErr("InvalidArgument", 0, t, s)
        ELSE GrpcReply(create_invitation(t, s,
                 [guest_id |-> request.guest_id, party_id |-> request.party_id,
                  status |-> Unwrap(status)]))

MyPartyService_update_invitation(t, s, request) ==
    LET status == status_of_request(request.status)
    IN  IF status = None THEN GrpcErr("InvalidArgument", 0, t, s)
        ELSE GrpcReply(update_invitation(t, s, request.id,
                 [guest_id |-> request.guest_id, party_id |-> request.party_id,
                  status |-> Unwrap(status)]))

\* CreateInvitationRequest and UpdateInvitationRequest
CreateInvitationRequests == [guest_id : Ids, party_id : Ids, status : StatusStrings]
UpdateInvitationRequests == [id : Ids, guest_id : Ids, party_id : Ids, status : StatusStrings]

\* A service call is made and answers.
GrpcApply(op, request, res) ==
    /\ last = NoCall
    /\ tables' = res.tables
    /\ seqs' = res.seqs
    /\ last' = [op |-> op, table |-> "invitation", id |-> 0, found |-> FALSE,
                ok |-> res.ok, args |-> Some(request), value |-> res.value,
                queries |-> res.queries]
    /\ UNCHANGED notCrud

GrpcCreateInvitation ==
    \E request \in CreateInvitationRequests :
        /\ status_of_request(request.status) # None => seqs.invitation <= MaxRows
        /\ GrpcApply("grpc_create_invitation", request,
                     MyPartyService_create_invitation(tables, seqs, request))

GrpcUpdateInvitation ==
    \E request \in UpdateInvitationRequests :
        GrpcApply("grpc_update_invitation", request,
                  MyPartyService_update_invitation(tables, seqs, request))

\* The service over a store in which guests, parties and invitations are made.
NextGrpc ==
    \/ CallCreate
    \/ GrpcCreateInvitation
    \/ GrpcUpdateInvitation
    \/ Returned

SpecGrpc == InitCrud /\ [][NextGrpc]_vars

\* ------------------------------------------------------------------ RSVP API: actions
\* A response is sent as soon as its handler has returned: no statement
\* runs while a response waits to be sent.
NoResponseWaits == \A c \in Connections : conn[c].pc # "done"

\* A handler that runs one statement and answers: the request is served on
\* connection c in one step.
Served(c, op, user, party, rsvp_id, reply) ==
    /\ NoResponseWaits
    /\ conn[c].pc = "idle"
    /\ conn' = [conn EXCEPT ![c] =
                   [pc |-> "done", op |-> op, user |-> user, party |-> party,
                    rsvp_id |-> rsvp_id, snapshot |-> None, reply |-> Some(reply)]]

\* get_rsvp: the statement begins on connection c and takes its snapshot.
GetRsvpBegin(c) ==
    /\ NoResponseWaits
    /\ conn[c].pc = "idle"
    /\ \E user \in Users, party \in PartyPaths(partyRows) :
          conn' = [conn EXCEPT ![c] =
                      [pc |-> "get_rsvp", op |-> "get_rsvp", user |-> user,
                       party |-> party, rsvp_id |-> 0,
                       snapshot |-> Some(get_rsvp_snapshot(partyRows, rsvpRows, party, user)),
                       reply |-> None]]
    /\ UNCHANGED <<notRsvp, partyRows, rsvpRows, nextRsvp>>

\* get_rsvp: the INSERT and the final SELECT run, and the handler answers.
GetRsvpExecute(c) ==
    /\ NoResponseWaits
    /\ conn[c].pc = "get_rsvp"
    /\ LET res == get_rsvp_impl(Unwrap(conn[c].snapshot), rsvpRows, nextRsvp,
                                conn[c].party, conn[c].user)
       IN  /\ rsvpRows' = res.rsvps
           /\ nextRsvp' = IF res.rsvps = rsvpRows THEN nextRsvp ELSE nextRsvp + 1
           /\ conn' = [conn EXCEPT ![c].pc = "done", ![c].snapshot = None,
                                   ![c].reply = Some(res.reply)]
    /\ UNCHANGED <<notRsvp, partyRows>>

UpdateRsvp(c) ==
    /\ \E user \in Users, rsvp_id \in 1..nextRsvp, status \in UpdateStatuses :
          LET res == update_rsvp_impl(rsvpRows, [rsvp_id |-> rsvp_id, status |-> status], user)
          IN  /\ Served(c, "update_rsvp", user, "none", rsvp_id, res.reply)
              /\ rsvpRows' = res.rsvps
    /\ UNCHANGED <<notRsvp, partyRows, nextRsvp>>

DeleteRsvp(c) ==
    /\ \E user \in Users, party \in PartyPaths(partyRows) :
          LET res == delete_rsvp_impl(rsvpRows, party, user)
          IN  /\ Served(c, "delete_rsvp", user, party, 0, res.reply)
              /\ rsvpRows' = res.rsvps
    /\ UNCHANGED <<notRsvp, partyRows, nextRsvp>>

ListParties(c) ==
    /\ \E reply \in list_parties_impl(partyRows) :
          Served(c, "list_parties", "none", "none", 0, reply)
    /\ UNCHANGED <<notRsvp, partyRows, rsvpRows, nextRsvp>>

GetParty(c) ==
    /\ \E party \in PartyPaths(partyRows) :
          Served(c, "get_party", "none", party, 0, get_party_impl(partyRows, party))
    /\ UNCHANGED <<notRsvp, partyRows, rsvpRows, nextRsvp>>

GetPartyRsvps(c) ==
    /\ \E party \in PartyPaths(partyRows) :
          \E reply \in get_party_rsvps_impl(rsvpRows, party) :
              Served(c, "get_party_rsvps", "none", party, 0, reply)
    /\ UNCHANGED <<notRsvp, partyRows, rsvpRows, nextRsvp>>

\* The response is sent and the connection goes back to the pool.
Respond(c) ==
    /\ conn[c].pc = "done"
    /\ conn' = [conn EXCEPT ![c] = IdleConn]
    /\ UNCHANGED <<notRsvp, partyRows, rsvpRows, nextRsvp>>

\* The host soft-deletes a party with the guestbook tool.
DeleteParty ==
    /\ NoResponseWaits
    /\ \E slug \in PartyPaths(partyRows) :
          /\ party_check(partyRows, slug) # {}
          /\ partyRows' = guestbook_delete_party(partyRows, slug)
    /\ UNCHANGED <<notRsvp, rsvpRows, nextRsvp, conn>>

\* The RSVP handlers over one party.
InitRsvp ==
    /\ deploy = [gate |-> "none", validator |-> "none", resolver |-> "none"]
    /\ GateIdle
    /\ WarpIdle
    /\ StoredIdle
    /\ CrudIdle
    /\ RsvpIdle
    /\ ModelIdle
    /\ ExtractIdle
    /\ AuthIdle

NextRsvp ==
    \/ DeleteParty
    \/ \E c \in Connections :
          \/ GetRsvpBegin(c)
          \/ GetRsvpExecute(c)
          \/ UpdateRsvp(c)
          \/ DeleteRsvp(c)
          \/ Respond(c)

SpecRsvp == InitRsvp /\ [][NextRsvp]_vars

\* The read endpoints over two parties, after both users have made their
\* RSVP for the first party through get_rsvp, in either order.
InitReads ==
    /\ deploy = [gate |-> "none", validator |-> "none", resolver |-> "none"]
    /\ GateIdle
    /\ WarpIdle
    /\ StoredIdle
    /\ CrudIdle
    /\ ModelIdle
    /\ ExtractIdle
    /\ AuthIdle
    /\ \E t1, t2 \in PartyTimes : partyRows = PartyTable(t1, t2)
    /\ \E first \in Users :
          rsvpRows = {new_rsvp(IF user = first THEN 1 ELSE 2, "p1", user) : user \in Users}
    /\ nextRsvp = 3
    /\ conn = [c \in Connections |-> IdleConn]

NextReads ==
    \/ DeleteParty
    \/ \E c \in Connections :
          \/ DeleteRsvp(c)
          \/ ListParties(c)
          \/ GetParty(c)
          \/ GetPartyRsvps(c)
          \/ Respond(c)

SpecReads == InitReads /\ [][NextReads]_vars

\* ------------------------------------------------------------------ model.rs: actions
\* Rsvp::get_rsvp: SELECT .. FROM rsvps WHERE id = $1, then from_row.
Rsvp_get_rsvp ==
    /\ \E id \in RsvpRowIds :
          decoded' = [op |-> "get_rsvp", id |-> id, sent |-> None,
                      result |-> Some(Rsvp_from_row(id, statusColumn[id]))]
    /\ UNCHANGED <<notModel, statusColumn>>

\* Rsvp::update_rsvp: UPDATE rsvps SET status = $1 WHERE id = $2 RETURNING ..,
\* then from_row of the row returned.
Rsvp_update_rsvp ==
    /\ \E id \in RsvpRowIds, status \in RsvpStatuses4 :
          /\ statusColumn' = [statusColumn EXCEPT ![id] = status_value(status)]
          /\ decoded' = [op |-> "update_rsvp", id |-> id, sent |-> Some(status),
                         result |-> Some(Rsvp_from_row(id, status_value(status)))]
    /\ UNCHANGED notModel

Party_get_rsvps_by_party_with_guest ==
    /\ decoded' = [op |-> "get_rsvps_by_party_with_guest", id |-> 0, sent |-> None,
                   result |-> Some(rows_map(RsvpRowIds, statusColumn))]
    /\ UNCHANGED <<notModel, statusColumn>>

\* The rsvps table holds any i32 in its status column.
InitModel ==
    /\ deploy = [gate |-> "none", validator |-> "none", resolver |-> "none"]
    /\ GateIdle
    /\ WarpIdle
    /\ StoredIdle
    /\ CrudIdle
    /\ RsvpIdle
    /\ statusColumn \in [RsvpRowIds -> StatusInts]
    /\ decoded = NoDecode
    /\ ExtractIdle
    /\ AuthIdle

NextModel ==
    \/ Rsvp_get_rsvp
    \/ Rsvp_update_rsvp
    \/ Party_get_rsvps_by_party_with_guest

SpecModel == InitModel /\ [][NextModel]_vars

\* ------------------------------------------------------------------ extractors: actions
\* Both extractors are run on the headers of the request.
Extract ==
    /\ ~scanned.done
    /\ scanned' = [scanned EXCEPT !.done = TRUE,
                                  !.auth = extract_cookie_access_token(scanned.headers),
                                  !.research = extract_token(scanned.headers)]
    /\ UNCHANGED notExtract

\* A request with any Cookie header and no other credential header.
InitExtract ==
    /\ deploy = [gate |-> "none", validator |-> "none", resolver |-> "none"]
    /\ GateIdle
    /\ WarpIdle
    /\ StoredIdle
    /\ CrudIdle
    /\ RsvpIdle
    /\ ModelIdle
    /\ AuthIdle
    /\ \E cookie \in CookieHeaders :
          scanned = [headers |-> [NoHeaders EXCEPT !.cookie = cookie], done |-> FALSE,
                     auth |-> None, research |-> None]

NextExtract == Extract

SpecExtract == InitExtract /\ [][NextExtract]_vars

\* ------------------------------------------------------------------ passcode/HMAC server: authenticate
\* POST /auth arrives with a passcode; authenticate awaits party_lock.read().
AuthArrive(r) ==
    /\ authCall[r].pc = "new"
    /\ \E passcode \in Passcodes :
          authCall' = [authCall EXCEPT ![r].pc = "read", ![r].passcode = Some(passcode)]
    /\ UNCHANGED <<notAuth, partyLock, guestDocs>>

\* The read guard is granted.
AuthLock(r) ==
    /\ authCall[r].pc = "read"
    /\ read_ready(partyLock)
    /\ partyLock' = [partyLock EXCEPT !.readers = @ \cup {r}]
    /\ authCall' = [authCall EXCEPT ![r].pc = "auth"]
    /\ UNCHANGED <<notAuth, guestDocs>>

\* Party::auth returns under the guard; authenticate replies with the
\* token or rejects, and the guard is dropped.
AuthReply(r) ==
    /\ authCall[r].pc = "auth"
    /\ \E queryOk \in BOOLEAN :
          LET res == authenticate(guestDocs, Unwrap(authCall[r].passcode), queryOk, PARTY_KEY)
          IN  authCall' = [authCall EXCEPT ![r].pc = "replied",
                                           ![r].queryOk = queryOk,
                                           ![r].token = res.token,
                                           ![r].outcome = IF res.ok THEN "reply" ELSE res.error]
    /\ partyLock' = [partyLock EXCEPT !.readers = @ \ {r}]
    /\ UNCHANGED <<notAuth, guestDocs>>

\* The client sends POST /rsvp with a Party-Token: with_token reads the
\* key under the read lock and verifies the token.
AuthPresent(r) ==
    /\ authCall[r].pc = "replied"
    /\ read_ready(partyLock)
    /\ \E token \in ClientTokens(authCall[r].token) :
          LET res == with_token(token, PARTY_KEY)
          IN  authCall' = [authCall EXCEPT ![r].pc = IF res.ok THEN "handler" ELSE "done",
                                           ![r].presented = Some(token),
                                           ![r].accepted = res.ok,
                                           ![r].guest = res.guest,
                                           ![r].outcome = IF res.ok THEN @ ELSE res.error]
    /\ UNCHANGED <<notAuth, partyLock, guestDocs>>

\* handlers::update_rsvp under the write guard: Party::rsvp sets the status
\* of the guest's document.
AuthUpdateRsvp(r) ==
    /\ authCall[r].pc = "handler"
    /\ write_ready(partyLock)
    /\ \E rsvp_status \in RsvpUpdates : \E dbOk \in BOOLEAN :
          LET guest == Unwrap(authCall[r].guest)
              found == dbOk /\ guest \in DOMAIN guestDocs
          IN  /\ guestDocs' = IF found
                              THEN [guestDocs EXCEPT ![guest].status = rsvp_status]
                              ELSE guestDocs
              /\ authCall' = [authCall EXCEPT ![r].pc = "done",
                                              ![r].outcome = IF found THEN "reply"
                                                             ELSE "GuestNotFoundError"]
    /\ UNCHANGED <<notAuth, partyLock>>

\* Any guests collection: each document with one of the passcodes.
InitAuth ==
    /\ deploy = [gate |-> "with_token", validator |-> "verify_with_key", resolver |-> "none"]
    /\ GateIdle
    /\ WarpIdle
    /\ StoredIdle
    /\ CrudIdle
    /\ RsvpIdle
    /\ ModelIdle
    /\ ExtractIdle
    /\ \E passcodes \in [DocIds -> Passcodes] :
          guestDocs = [d \in DocIds |-> [passcode |-> passcodes[d], status |-> "Pending"]]
    /\ authCall = [r \in Requests |-> NewAuthCall]

NextAuth ==
    \E r \in Requests :
        \/ AuthArrive(r)
        \/ AuthLock(r)
        \/ AuthReply(r)
        \/ AuthPresent(r)
        \/ AuthUpdateRsvp(r)

SpecAuth == InitAuth /\ [][NextAuth]_vars

\* ------------------------------------------------------------------ sqlx store: properties
\* A step in which a call is made and returns.
CallStep == last = NoCall /\ last' # NoCall

\* The get of a table, on given tables.
GetIn(tb, t, s, id) ==
    CASE tb = "guests" -> lib_get_guest(t, s, id)
      [] tb = "party" -> get_party(t, s, id)
      [] tb = "invitation" -> get_invitation(t, s, id)

\* The record with the id and exactly the field values passed.
PassedExactly(id, a) == [id |-> id] @@ a

\* The same, with a party date cut to whole microseconds.
PassedToMicroseconds(tb, id, a) ==
    IF tb = "party" /\ a.date # None
    THEN [PassedExactly(id, a) EXCEPT !.date = Some([micros |-> a.date[1].micros, nanos |-> 0])]
    ELSE PassedExactly(id, a)

\* The call c, made on tables t, updates or deletes record id of table tb
\* (a delete of a guest or party deletes its invitations too).
Touches(c, t, tb, id) ==
    /\ c.op \in {"update", "delete"}
    /\ \/ c.table = tb /\ c.id = id
       \/ /\ c.op = "delete"
          /\ tb = "invitation"
          /\ \E x \in WhereId(t.invitation, id) :
                \/ c.table = "guests" /\ x.guest_id = c.id
                \/ c.table = "party" /\ x.party_id = c.id

\* A call that neither updates nor deletes a record leaves what get returns
\* for it as it was.
UntouchedReadsTheSame ==
    \A tb \in TableNames, id \in Ids :
        (GetIn(tb, tables, seqs, id).ok /\ ~Touches(last', tables, tb, id))
            => /\ GetIn(tb, tables', seqs', id).ok
               /\ GetIn(tb, tables', seqs', id).value = GetIn(tb, tables, seqs, id).value

\* C16 (as stated): once a create has succeeded and returned id, get on that
\* id returns the same id and exactly the field values passed to create, for
\* as long as the record is neither updated nor deleted.
C16_RoundTripExact ==
    [][CallStep =>
         /\ (last'.op = "create" /\ last'.ok) =>
               GetIn(last'.table, tables', seqs', last'.id).value
                   = Some(PassedExactly(last'.id, Unwrap(last'.args)))
         /\ UntouchedReadsTheSame]_vars

\* C16 (amended): once a create has succeeded and returned id, get on that id
\* returns the same id and the field values passed to create, a party date
\* cut to whole microseconds, for as long as the record is neither updated
\* nor deleted.
C16_RoundTripToMicroseconds ==
    [][CallStep =>
         /\ (last'.op = "create" /\ last'.ok) =>
               GetIn(last'.table, tables', seqs', last'.id).value
                   = Some(PassedToMicroseconds(last'.table, last'.id, Unwrap(last'.args)))
         /\ UntouchedReadsTheSame]_vars

\* C16 witness: a party was created with a date that has nanoseconds below
\* the microsecond, and a guest and an invitation exist with it.
C16_Witness ==
    /\ last.op = "create" /\ last.ok /\ last.table = "party"
    /\ Unwrap(last.args).date = Some([micros |-> 7, nanos |-> 500])
    /\ tables.guests # {}
    /\ tables.invitation # {}

\* The list of a table, on given tables.
ListIn(tb, t, s) ==
    CASE tb = "guests" -> list_guests(t, s)
      [] tb = "party" -> list_parties(t, s)
      [] tb = "invitation" -> list_invitations(t, s)

\* The ids of the records a list holds.
ListedIds(list) == {list[i].id : i \in 1..Len(list)}

\* C17: after a delete has succeeded on an existing id, get on that id fails
\* then and after every later call, the list of the table no longer holds
\* the record, and the other records of the table are as they were.
C17_DeletedStaysGone ==
    [][CallStep =>
         /\ (last'.op = "delete" /\ last'.found /\ last'.ok) =>
               /\ ~GetIn(last'.table, tables', seqs', last'.id).ok
               /\ last'.id \notin ListedIds(Unwrap(ListIn(last'.table, tables', seqs').value))
               /\ {x \in tables'[last'.table] : x.id # last'.id}
                      = {x \in tables[last'.table] : x.id # last'.id}
         /\ \A tb \in TableNames, id \in Ids :
               (id < seqs[tb] /\ ~GetIn(tb, tables, seqs, id).ok)
                   => ~GetIn(tb, tables', seqs', id).ok]_vars

\* C17 witness: a party was deleted while another party and an invitation
\* to that other party exist.
C17_Witness ==
    /\ last.op = "delete" /\ last.found /\ last.ok /\ last.table = "party"
    /\ tables.party # {}
    /\ tables.invitation # {}

\* C18: for an id that is not in the store, get and update return an error
\* and delete returns Ok, and none of the three changes the store.
C18_AbsentIdLeavesStoreAlone ==
    [][(CallStep /\ last'.op \in {"get", "update", "delete"} /\ ~last'.found) =>
         /\ last'.ok <=> last'.op = "delete"
         /\ tables' = tables
         /\ seqs' = seqs]_vars

\* C18 witness: an update of an absent guest id returned an error while
\* another guest exists.
C18_Witness ==
    /\ last.op = "update" /\ ~last.found /\ ~last.ok /\ last.table = "guests"
    /\ tables.guests # {}

\* C19: what a list call returns is exactly the records that exist, each
\* once and as get returns them, in ascending id order; on an empty table
\* it is the empty list.
C19_ListIsExistingAscending ==
    last.op = "list" =>
        LET list == Unwrap(last.value)
            rows == tables[last.table]
        IN  /\ last.ok
            /\ Len(list) = Cardinality(rows)
            /\ \A i \in 1..Len(list) :
                  Some(list[i]) = GetIn(last.table, tables, seqs, list[i].id).value
            /\ ListedIds(list) = {x.id : x \in rows}
            /\ \A i, j \in 1..Len(list) : i < j => list[i].id < list[j].id
            /\ (rows = {} => list = <<>>)

\* C19 witness: list_guests returned two guests.
C19_Witness ==
    /\ last.op = "list" /\ last.table = "guests"
    /\ Len(Unwrap(last.value)) = 2

\* No two invitations have the same (guest_id, party_id).
UniquePairs ==
    \A x, y \in tables.invitation :
        (x.guest_id = y.guest_id /\ x.party_id = y.party_id) => x = y

\* The pair the invitation call c asks for is held by another invitation of t.
PairTaken(c, t) ==
    /\ c.table = "invitation"
    /\ c.op \in {"create", "update"}
    /\ \E x \in t.invitation :
          /\ x.guest_id = Unwrap(c.args).guest_id
          /\ x.party_id = Unwrap(c.args).party_id
          /\ (c.op = "update" => x.id # c.id)

\* C20: there is never more than one invitation per (guest_id, party_id): a
\* create_invitation for a pair that has one fails, so does an
\* update_invitation onto a pair another invitation holds, and both leave
\* the invitations unchanged.
C20_OneInvitationPerPair ==
    /\ []UniquePairs
    /\ [][(CallStep /\ PairTaken(last', tables)) =>
            /\ ~last'.ok
            /\ tables' = tables]_vars

\* C20 witness: an update_invitation of an existing invitation onto the pair
\* of another invitation was refused.
C20_Witness ==
    /\ last.op = "update" /\ last.found /\ ~last.ok
    /\ PairTaken(last, tables)
    /\ \E x \in tables.invitation : x.id = last.id

\* Every invitation references a guest and a party that exist.
ReferencesExist ==
    \A x \in tables.invitation :
        /\ WhereId(tables.guests, x.guest_id) # {}
        /\ WhereId(tables.party, x.party_id) # {}

\* The invitation call c names a guest or a party that is not in t.
Dangling(c, t) ==
    /\ c.table = "invitation"
    /\ c.op \in {"create", "update"}
    /\ \/ WhereId(t.guests, Unwrap(c.args).guest_id) = {}
       \/ WhereId(t.party, Unwrap(c.args).party_id) = {}

\* C21: every invitation references an existing guest and an existing
\* party: a create_invitation or update_invitation naming a guest or party
\* that does not exist fails and changes no row, and a delete of a guest or a
\* party removes every invitation that references it.
C21_InvitationsReferenceExisting ==
    /\ []ReferencesExist
    /\ [][CallStep =>
            /\ Dangling(last', tables) => (~last'.ok /\ tables' = tables)
            /\ (last'.op = "delete" /\ last'.table = "guests") =>
                  tables'.invitation = {x \in tables.invitation : x.guest_id # last'.id}
            /\ (last'.op = "delete" /\ last'.table = "party") =>
                  tables'.invitation = {x \in tables.invitation : x.party_id # last'.id}]_vars

\* C21 witness: a guest with an invitation was deleted, and the invitation
\* is gone while the party it named is still there.
C21_Witness ==
    /\ last.op = "delete" /\ last.table = "guests" /\ last.found
    /\ seqs.invitation > 1
    /\ tables.invitation = {}
    /\ tables.party # {}

\* ------------------------------------------------------------------ gRPC service: properties
\* C22: a gRPC create_invitation or update_invitation whose status string
\* is not "no", "yes" or "maybe" answers InvalidArgument without a call on
\* the store, and no invitation is created or changed.
C22_InvalidStatusIsInvalidArgument ==
    [][(CallStep
          /\ last'.op \in {"grpc_create_invitation", "grpc_update_invitation"}
          /\ Unwrap(last'.args).status \notin {"no", "yes", "maybe"}) =>
         /\ Unwrap(last'.value).code = "InvalidArgument"
         /\ last'.queries = 0
         /\ tables' = tables
         /\ seqs' = seqs]_vars

\* C22 witness: an update_invitation with status "Yes" for an existing
\* invitation, and for a guest and party that exist, was answered
\* InvalidArgument.
C22_Witness ==
    /\ last.op = "grpc_update_invitation"
    /\ Unwrap(last.args).status = "Yes"
    /\ Unwrap(last.value).code = "InvalidArgument"
    /\ WhereId(tables.invitation, Unwrap(last.args).id) # {}
    /\ WhereId(tables.guests, Unwrap(last.args).guest_id) # {}
    /\ WhereId(tables.party, Unwrap(last.args).party_id) # {}

\* ------------------------------------------------------------------ RSVP API: properties
\* Connection c finishes a get_rsvp in this step.
GetRsvpReturns(c) == conn[c].pc = "get_rsvp" /\ conn'[c].pc = "done"

\* No row the statement of c read has changed since the statement began:
\* the call did not overlap a write to what it reads.
Undisturbed(c) ==
    Unwrap(conn[c].snapshot)
        = get_rsvp_snapshot(partyRows, rsvpRows, conn[c].party, conn[c].user)

\* The RSVP rows of a user for a party, soft-deleted ones included.
RsvpsOf(rsvps, party_id, user_id) ==
    {r \in rsvps : r.party_id = party_id /\ r.user_id = user_id}

\* C23: get_rsvp is get-or-create: when the party exists and is not
\* soft-deleted the call answers 200 with the user's RSVP for the party,
\* created with status "pending" if the user had none; when the party does
\* not exist or is soft-deleted it answers 404 and creates nothing.
C23_GetRsvpIsGetOrCreate ==
    [][\A c \in Connections : (GetRsvpReturns(c) /\ Undisturbed(c)) =>
         LET party == conn[c].party
             user == conn[c].user
             reply == Unwrap(conn'[c].reply)
             had == live_rsvp(rsvpRows, party, user)
         IN  IF party_check(partyRows, party) # {}
             THEN /\ reply.status = 200
                  /\ reply.body \in {Some(r) : r \in live_rsvp(rsvpRows', party, user)}
                  /\ had # {} => rsvpRows' = rsvpRows
                  /\ had = {} => /\ Unwrap(reply.body).status = "pending"
                                 /\ rsvpRows' = rsvpRows \cup {Unwrap(reply.body)}
             ELSE /\ reply.status = 404
                  /\ rsvpRows' = rsvpRows]_vars

\* Connection c serves an update_rsvp or a delete_rsvp in this step.
WritesRsvp(c) ==
    /\ conn[c].pc = "idle"
    /\ conn'[c].pc = "done"
    /\ conn'[c].op \in {"update_rsvp", "delete_rsvp"}

\* The rows the request served on c names: by rsvp_id for update_rsvp, by
\* party for delete_rsvp (which looks among the caller's rows only).
Named(k, rsvps) ==
    IF k.op = "update_rsvp" THEN {r \in rsvps : r.rsvp_id = k.rsvp_id}
    ELSE RsvpsOf(rsvps, k.party, k.user)

\* C24: update_rsvp and delete_rsvp change a row only if it is the caller's
\* and not soft-deleted; a request naming another user's RSVP, a
\* soft-deleted RSVP or none answers 404 and leaves every row unchanged.
C24_OnlyOwnLiveRsvpChanges ==
    [][\A c \in Connections : WritesRsvp(c) =>
         LET k == conn'[c]
             own == {r \in Named(k, rsvpRows) :
                        r.user_id = k.user /\ r.deleted_at = NotDeleted}
         IN  /\ rsvpRows \ rsvpRows' \subseteq own
             /\ own = {} => /\ Unwrap(k.reply).status = 404
                            /\ rsvpRows' = rsvpRows]_vars

\* C24 witness: an update_rsvp naming a live RSVP of another user was
\* answered 404.
C24_Witness ==
    \E c \in Connections :
        /\ conn[c].pc = "done" /\ conn[c].op = "update_rsvp"
        /\ Unwrap(conn[c].reply).status = 404
        /\ \E r \in rsvpRows :
              /\ r.rsvp_id = conn[c].rsvp_id
              /\ r.user_id # conn[c].user
              /\ r.deleted_at = NotDeleted

\* The records the reply of a request carries: the one party of get_party,
\* or the elements of a list.
Returned200(k) ==
    LET reply == Unwrap(k.reply)
    IN  IF reply.status # 200 THEN {}
        ELSE IF k.op = "get_party" THEN {Unwrap(reply.body)}
        ELSE {Unwrap(reply.body)[i] : i \in 1..Len(Unwrap(reply.body))}

\* C25: no read endpoint returns a soft-deleted record: list_parties and
\* get_party return only parties whose deleted_at is not set,
\* get_party_rsvps only RSVPs whose deleted_at is not set, and list_parties
\* returns every remaining party, once, in ascending time order.
C25_ReadsSkipSoftDeleted ==
    \A c \in Connections :
        (conn[c].pc = "done"
           /\ conn[c].op \in {"list_parties", "get_party", "get_party_rsvps"}) =>
            LET reply == Unwrap(conn[c].reply)
            IN  /\ \A r \in Returned200(conn[c]) : r.deleted_at = NotDeleted
                /\ conn[c].op = "list_parties" =>
                      LET list == Unwrap(reply.body)
                      IN  /\ reply.status = 200
                          /\ Returned200(conn[c]) = {p \in partyRows : p.deleted_at = NotDeleted}
                          /\ Len(list) = Cardinality(Returned200(conn[c]))
                          /\ \A i, j \in 1..Len(list) : i < j => list[i].time <= list[j].time
                /\ conn[c].op = "get_party" =>
                      (reply.status = 404 <=> party_check(partyRows, conn[c].party) = {})

\* C25 witness: list_parties answered with the one remaining party after the
\* other was soft-deleted.
C25_Witness ==
    \E c \in Connections :
        /\ conn[c].pc = "done" /\ conn[c].op = "list_parties"
        /\ Len(Unwrap(Unwrap(conn[c].reply).body)) = 1
        /\ \E p \in partyRows : p.deleted_at # NotDeleted

\* The rsvp table holds at most one row per (party_id, user_id).
OneRsvpPerPair ==
    \A x, y \in rsvpRows :
        (x.party_id = y.party_id /\ x.user_id = y.user_id) => x = y

\* C28: get_rsvp calls by one user for one existing party, sequential or
\* concurrent, all succeed with the same rsvp_id, the id of the one row the
\* table holds for the pair; the table never holds two rows for a pair.
\* (Calls for a pair whose row was soft-deleted are left out: see C23.)
C28_GetRsvpCallsAgree ==
    /\ []OneRsvpPerPair
    /\ [][\A c \in Connections :
            (/\ GetRsvpReturns(c)
             /\ Unwrap(conn[c].snapshot).party_check
             /\ party_check(partyRows, conn[c].party) # {}
             /\ \A r \in RsvpsOf(rsvpRows, conn[c].party, conn[c].user) :
                   r.deleted_at = NotDeleted) =>
                /\ Unwrap(conn'[c].reply).status = 200
                /\ \A r \in RsvpsOf(rsvpRows', conn[c].party, conn[c].user) :
                      Unwrap(Unwrap(conn'[c].reply).body).rsvp_id = r.rsvp_id]_vars

\* ------------------------------------------------------------------ model.rs: properties
\* C26: a stored status of 0, 1, 2 or 3 decodes to Pending, Accepted, Maybe
\* or Declined, the inverse of the encoding of update_rsvp, and any other
\* integer makes the call panic instead of returning an error value.
C26_StatusDecoding ==
    /\ decoded.op \in {"get_rsvp", "update_rsvp"} =>
          LET result == Unwrap(decoded.result)
              v == statusColumn[decoded.id]
          IN  /\ v \in 0..3 =>
                    /\ ~result.panic
                    /\ Unwrap(result.value).status
                           = <<"Pending", "Accepted", "Maybe", "Declined">>[v + 1]
                    /\ status_value(Unwrap(result.value).status) = v
              /\ v \notin 0..3 => result.panic
              /\ decoded.op = "update_rsvp" =>
                    /\ ~result.panic
                    /\ Unwrap(result.value).status = Unwrap(decoded.sent)
    /\ decoded.op = "get_rsvps_by_party_with_guest" =>
          (Unwrap(decoded.result).panic <=> \E id \in RsvpRowIds : statusColumn[id] \notin 0..3)

\* C26 witness: get_rsvp on a row whose status column holds 4 panicked.
C26_Witness ==
    /\ decoded.op = "get_rsvp"
    /\ statusColumn[decoded.id] = 4
    /\ Unwrap(decoded.result).panic

\* ------------------------------------------------------------------ extractors: properties
\* The entry, trimmed, begins with the session prefix and contains '='.
Qualifies(entry) ==
    LET t == Trim(entry)
    IN  /\ Len(t) > 0
        /\ t[1] = SESSION_PREFIX
        /\ \E k \in 1..Len(t) : t[k] = "="

\* The name and value of the first qualifying entry of a readable Cookie
\* header, split at the first '='; None when there is none.
FirstQualifying(cookie) ==
    IF cookie = None \/ ~Unwrap(cookie).ascii THEN None
    ELSE LET entries == Split(Unwrap(cookie).text, ";")
             Q == {i \in 1..Len(entries) : Qualifies(entries[i])}
         IN  IF Q = {} THEN None
             ELSE LET i == CHOOSE x \in Q : \A y \in Q : x <= y
                      t == Trim(entries[i])
                      k == CHOOSE x \in 1..Len(t) :
                               t[x] = "=" /\ \A y \in 1..(x - 1) : t[y] # "="
                  IN  Some([name |-> SubSeq(t, 1, k - 1), value |-> SubSeq(t, k + 1, Len(t))])

\* C27: the cookie extractor returns the name and value, split at the first
\* '=', of the first entry of the Cookie header whose trimmed text begins
\* with ory_session_ and contains '='; prefixed entries without '=' are
\* passed over; with no such entry, or no readable Cookie header, it
\* returns None.
C27_FirstQualifyingCookie ==
    scanned.done =>
        /\ scanned.auth = FirstQualifying(scanned.headers.cookie)
        /\ scanned.research = FirstQualifying(scanned.headers.cookie)

\* C27 witness: a prefixed entry without '=' was passed over and the next
\* prefixed entry, which has one, was returned.
C27_Witness ==
    /\ scanned.done
    /\ scanned.headers.cookie
           = Some(HeaderValue(TRUE, <<SESSION_PREFIX, ";", SESSION_PREFIX, "=">>))
    /\ scanned.auth = Some([name |-> <<SESSION_PREFIX>>, value |-> <<>>])

\* ------------------------------------------------------------------ passcode/HMAC server: authenticate properties
\* The guests a passcode matches.
Matches(passcode) == {d \in DOMAIN guestDocs : guestDocs[d].passcode = passcode}

\* The signature of a token verifies under the party key.
VerifiesUnderPartyKey(token) ==
    token.header = "HS256" /\ token.signature = Mac(PARTY_KEY, "HS256", token.claims)

\* C29: the token filter accepts a token exactly when its signature verifies
\* under the party key and its claims contain guest, and hands the handler
\* that claim's value; a token issued by authenticate for a passcode is
\* accepted and resolves to the guest id the passcode matched.
C29_TokenFilterAcceptsIssued ==
    \A r \in Requests :
        IsSome(authCall[r].presented) =>
            LET token == Unwrap(authCall[r].presented)
            IN  /\ authCall[r].accepted <=>
                       (VerifiesUnderPartyKey(token) /\ "guest" \in DOMAIN token.claims)
                /\ authCall[r].accepted => authCall[r].guest = Some(token.claims["guest"])
                /\ ~authCall[r].accepted => authCall[r].guest = None
                /\ authCall[r].presented = authCall[r].token =>
                       /\ authCall[r].accepted
                       /\ Matches(Unwrap(authCall[r].passcode)) = {Unwrap(authCall[r].guest)}

C29_Witness ==
    \E r, q \in Requests :
        /\ authCall[r].presented = authCall[r].token
        /\ authCall[r].guest = Some("g2")
        /\ IsSome(authCall[q].presented)
        /\ Unwrap(authCall[q].presented) = sign_with_key("name" :> "a", PARTY_KEY)
        /\ ~authCall[q].accepted

\* authenticate has answered a client.
AuthAnswered(r) == authCall[r].pc \notin {"new", "read", "auth"}

\* A step of authenticate.
AuthenticateStep ==
    \E r \in Requests : ~AuthAnswered(r) /\ authCall'[r] # authCall[r]

\* C30: authenticate issues a token only when the passcode matches exactly
\* one guest; no match, several matches or a failed query give AuthError
\* and no token; authenticate changes no guest record.
C30_TokenOnlyForOneMatch ==
    /\ [](\A r \in Requests :
            AuthAnswered(r) =>
                LET n == Cardinality(Matches(Unwrap(authCall[r].passcode)))
                IN  /\ IsSome(authCall[r].token) => n = 1 /\ authCall[r].queryOk
                    /\ (n # 1 \/ ~authCall[r].queryOk) =>
                           /\ authCall[r].token = None
                           /\ authCall[r].pc = "replied" => authCall[r].outcome = "AuthError")
    /\ [][AuthenticateStep => guestDocs' = guestDocs]_vars

C30_Witness ==
    \E r, q \in Requests :
        /\ IsSome(authCall[r].token)
        /\ authCall[q].pc = "replied"
        /\ authCall[q].queryOk
        /\ Cardinality(Matches(Unwrap(authCall[q].passcode))) = 2
        /\ authCall[q].outcome = "AuthError"
        /\ \E d \in DocIds : guestDocs[d].status # "Pending"

====
